---------------------------- MODULE Spec2Model ----------------------------
(***************************************************************************)
(* The Windows split-tunnel controller of talpid-core:                     *)
(*   talpid-core/src/split_tunnel/windows/driver.rs  (device client)       *)
(*   talpid-core/src/split_tunnel/windows/mod.rs     (serialiser, API)     *)
(* The kernel driver, the path resolver, the path monitor and winnet are   *)
(* the environment: every call into them takes each outcome its signature  *)
(* allows.                                                                 *)
(***************************************************************************)
EXTENDS Integers, Sequences, FiniteSets, TLC

(***************************************************************************)
(* Bounds of the model.                                                    *)
(***************************************************************************)
\* requests that may be placed on the request channel in one behaviour
MaxReq == 2
\* asynchronous set_paths calls in one behaviour
MaxAsync == 2
\* path-changed notifications the path monitor sends in one behaviour
MaxNotify == 1
\* route-change callbacks the OS delivers in one behaviour
MaxCallbacks == 2

(***************************************************************************)
(* driver.rs: enum DriverState                                             *)
(***************************************************************************)
StNone == 0
Started == 1
Initialized == 2
Ready == 3
Engaged == 4
Terminating == 5
\* a raw state code outside the enum, as a newer driver could report
RawUnknownState == 6

DriverStates == {StNone, Started, Initialized, Ready, Engaged, Terminating}

\* impl TryFrom<u64> for DriverState
DriverState_try_from(raw) ==
    IF raw \in DriverStates THEN [ok |-> TRUE, state |-> raw]
                            ELSE [ok |-> FALSE, state |-> raw]

(***************************************************************************)
(* Inputs.                                                                 *)
(***************************************************************************)
NoAddr == "None"
DefaultAddresses ==
    [tunnel_ipv4 |-> NoAddr, tunnel_ipv6 |-> NoAddr,
     internet_ipv4 |-> NoAddr, internet_ipv6 |-> NoAddr]

\* addresses a previous session may have left registered in the driver
PriorAddresses ==
    [tunnel_ipv4 |-> "10.64.0.2", tunnel_ipv6 |-> NoAddr,
     internet_ipv4 |-> "192.168.1.10", internet_ipv6 |-> NoAddr]

\* a configuration a previous session may have left in the driver
PriorConfig == << "\\Device\\HarddiskVolume1\\old.exe" >>

\* RESERVED_IP_V4 (mod.rs:47)
RESERVED_IP_V4 == "192.0.2.123"

\* tunnel metadata: Option<&TunnelMetadata>, of which only `ips` is read
Ip(family, addr) == [family |-> family, addr |-> addr]
NoMetadata == [some |-> FALSE, ips |-> << >>]
Metadata(ips) == [some |-> TRUE, ips |-> ips]
MetadataInputs ==
    { NoMetadata, Metadata(<< Ip(4, "10.64.0.2"), Ip(6, "fc00:bbbb::2") >>) }

\* local addresses of the default-route interface, per family
InternetV4 == "192.168.1.10"
InternetV6 == "2001:db8::10"
InternetAddr(family) == IF family = 4 THEN InternetV4 ELSE InternetV6

\* threads the OS runs route-change callbacks on
CbThreads == {"cb1", "cb2"}

\* user paths handed to set_paths, and the inputs the API thread draws from
P1 == "C:\\a.exe"
P2 == "C:\\b.exe"
PathInputs == { << >>, << P1 >>, << P1, P2 >> }

\* get_device_path (super::windows, outside this module): the NT device path
DevPath(p) == IF p = P1 THEN "\\Device\\HarddiskVolume1\\a.exe"
              ELSE "\\Device\\HarddiskVolume2\\b.exe"

\* outcomes of one get_device_path call
ResolveOutcomes == {"ok", "notfound", "error"}

\* the outcomes of the get_device_path calls one set_config makes for n
\* paths: one call per path, in order, none after the first call that fails
\* with an error other than not-found
ResolveRuns(n) ==
    { r \in UNION { [1..k -> ResolveOutcomes] : k \in 0..n } :
         /\ \A i \in 1..(Len(r) - 1) : r[i] # "error"
         /\ Len(r) < n => (Len(r) > 0 /\ r[Len(r)] = "error") }

VARIABLES
    \* ---- the driver and DeviceHandle::new
    drvState,       \* the driver's state code (raw u64)
    drvConfig,      \* the exclusion configuration held by the driver
    drvIps,         \* the addresses registered in the driver
    handleOpen,     \* the device handle exists
    openPc,         \* position of DeviceHandle::new
    openResult,     \* its result: "none" while running, "Ok", or the error
    openLog,        \* the ioctls DeviceHandle::new issued, in order (history)
    inflight,       \* per thread, the ioctl it is blocked in, or NoIoctl
    \* ---- the request channel; a request's id is its index in `sent`
    sent,           \* every request placed on the channel, in send order
    reqQ,           \* ids still queued in the channel
    resp,           \* per request, the serialiser's response ("pending" before)
    outcome,        \* per request, what its sender's wait returned ("waiting" before)
    issued,         \* per request, the ioctl issued for it and how it ended, or
                    \* the path resolutions that made it fail before (history)
    \* ---- the serialiser thread
    serPc,          \* "recv", "ioctl", "teardown", "exited"
    serCur,         \* id of the request being handled (0: none)
    handled,        \* ids in the order the serialiser took them (history)
    previous_addresses,
    monitored_paths,
    pathsLock,      \* holder of the monitored-paths mutex: "free", "ser", "rr"
    pmPaths,        \* the path monitor's path set (path_monitor.set_paths)
    \* ---- the re-resolver thread
    notifyQ,        \* notifications queued on monitor_rx
    notifySent,     \* notifications sent so far
    rrPc,           \* "recv", "ioctl"
    \* ---- the API thread (the tunnel state machine)
    apiPc,          \* "idle", "wait", "drop"
    apiOp,          \* the operation it is in
    apiCur,         \* id of the request it waits for
    \* ---- asynchronous set_paths
    async_path_update_in_progress,
    asyncCalls,     \* one record per set_paths call
    \* ---- tunnel addresses and the route-change callback
    ctxs,           \* the handler contexts created so far: addresses, lock and
                    \* the metadata each was created from (history)
    osCallbacks,    \* the contexts whose callback is registered with the OS
    cb,             \* per callback thread: pc, context, event, family, request
    cbFired,        \* callbacks delivered so far
    blocks,         \* Block(SplitTunnelError) commands sent to the daemon
    daemon_tx,      \* the daemon still holds its sender (Weak::upgrade works)
    cbLog,          \* the handler invocations that returned, in order
    quit_event,     \* the quit event has been set
    evPc,           \* event thread: "loop", "wait", "exited", "panicked"
    evBuf,          \* the buffer the last DequeEvent ioctl returned
    evCount,        \* DequeEvent ioctls issued
    snapshot,       \* build_process_tree: the processes as first recorded
    process_info,   \* build_process_tree: the map being corrected
    walked,         \* the pids in the order the map's iterator yields them
    registry,       \* serialize_process_tree: the entries written
    config_apps,    \* make_process_config: its apps, as UTF-16 unit counts
    config_buffer,  \* make_process_config: the buffer being filled
    tree_panicked   \* build_process_tree: a RefCell borrow failed

drvVars == << drvState, drvConfig, drvIps >>
openVars == << handleOpen, openPc, openResult >>
chanVars == << sent, reqQ, resp, outcome, issued >>
serVars == << serPc, serCur, handled, previous_addresses, monitored_paths,
              pathsLock, pmPaths >>
rrVars == << notifyQ, notifySent, rrPc >>
apiVars == << apiPc, apiOp, apiCur >>
asyncVars == << async_path_update_in_progress, asyncCalls >>
blockVars == << blocks, daemon_tx, cbLog >>
cbVars == << ctxs, osCallbacks, cb, cbFired, blockVars >>
evVars == << quit_event, evPc, evBuf, evCount >>
fnVars == << snapshot, process_info, walked, registry, config_apps,
            config_buffer, tree_panicked >>
sysVars == << inflight, chanVars, serVars, rrVars, apiVars, asyncVars, cbVars,
             evVars, fnVars >>

vars == << drvVars, openVars, openLog, sysVars >>

(***************************************************************************)
(* Event buffers and driver::parse_event_buffer (driver.rs:676-762)        *)
(***************************************************************************)
\* DequeEvent ioctls the event thread may issue
MaxEvents == 2

\* EventId (driver.rs:113-122), a u32 written as << bit 31 (the error flag),
\* bits 0..30 >>
StartSplittingProcess == << 0, 0 >>
StopSplittingProcess == << 0, 1 >>
ErrorStartSplittingProcess == << 1, 1 >>
ErrorStopSplittingProcess == << 1, 2 >>
ErrorMessage == << 1, 3 >>
EventIds ==
    {StartSplittingProcess, StopSplittingProcess, ErrorStartSplittingProcess,
     ErrorStopSplittingProcess, ErrorMessage}

\* raw ids no EventId has
UnknownEventIds == { << 0, 2 >>, << 1, 0 >> }

\* size_of::<u32>() and offset_of!(EventHeader, event_data) on x86-64
EventIdSize == 4
EventHeaderSize == 16

\* offset_of!(.., image_name_data / error_message_data) of the event's body
BodyHeaderSize(event_id) ==
    IF event_id \in {StartSplittingProcess, StopSplittingProcess} THEN 14
    ELSE IF event_id \in {ErrorStartSplittingProcess, ErrorStopSplittingProcess}
    THEN 10 ELSE 6

\* a buffer of `len` bytes, of which the parser reads the event id (bytes
\* 0..4) and the declared length of the string that ends the body
Buffer(len, event_id, string_length) ==
    [len |-> len, event_id |-> event_id, string_length |-> string_length]
NoBuffer == Buffer(0, StartSplittingProcess, 0)

\* lengths around every boundary the parser has; declared string lengths
EventBufferLengths(event_id, string_length) ==
    {0, EventIdSize - 1, EventIdSize, EventHeaderSize - 1, EventHeaderSize,
     EventHeaderSize + BodyHeaderSize(event_id) - 1,
     EventHeaderSize + BodyHeaderSize(event_id),
     EventHeaderSize + BodyHeaderSize(event_id) + string_length,
     EventHeaderSize + BodyHeaderSize(event_id) + string_length + 2}
EventBuffers ==
    { Buffer(len, IF len < EventIdSize THEN StartSplittingProcess ELSE id,
                  IF len < EventIdSize THEN 0 ELSE n) :
        << len, id, n >> \in
            { << l, i, m >> \in (0..40) \X (EventIds \cup UnknownEventIds) \X {0, 4} :
                 l \in EventBufferLengths(i, m) } }

\* &buffer[from..to] (driver.rs:683, 696, 703-710): panics past the end
SliceInRange(buffer, from, to) == to <= buffer.len

\* parse_event_buffer: "panic" when a slice is out of range, "none" (logged)
\* for an unknown event id, "event" otherwise
parse_event_buffer(buffer) ==
    IF ~SliceInRange(buffer, 0, EventIdSize) THEN "panic"
    ELSE IF buffer.event_id \notin EventIds THEN "none"
    ELSE IF ~SliceInRange(buffer, 0, EventHeaderSize) THEN "panic"
    ELSE LET body == EventHeaderSize
             string_byte_offset == body + BodyHeaderSize(buffer.event_id) IN
         IF ~SliceInRange(buffer, body, string_byte_offset) THEN "panic"
         ELSE IF ~SliceInRange(buffer, string_byte_offset,
                               string_byte_offset + buffer.string_length)
         THEN "panic"
         ELSE "event"

IdleCb ==
    [pc |-> "idle", ctx |-> 0, event |-> "none", family |-> 0, req |-> 0,
     tx |-> FALSE]

NoIoctl == [code |-> "none", arg |-> << >>, by |-> "none", req |-> 0, res |-> << >>]

\* make_process_config has not been called: no buffer
NoConfig ==
    [pc |-> "none", header |-> [num_entries |-> 0, total_length |-> 0],
     size |-> 0, entries |-> << >>, strings |-> << >>, string_offset |-> 0]

\* no ioctl was issued for a request (yet)
NotIssued == [code |-> "none", result |-> "none", failed |-> << >>]

(***************************************************************************)
(* The driver (environment).  driver.rs:71-86 documents the states:        *)
(* Started once DriverEntry has created the device object, Initialized     *)
(* after Initialize, Ready after the processes were registered, Engaged    *)
(* when addresses and a configuration are registered.                      *)
(***************************************************************************)
HasAddresses(ips) == ips # DefaultAddresses

\* Ready <-> Engaged follows what is registered; other states are kept
DriverStateFor(state, config, ips) ==
    IF state \in {Ready, Engaged}
    THEN IF config # << >> /\ HasAddresses(ips) THEN Engaged ELSE Ready
    ELSE state

\* an ioctl: its code and input, the thread and the request it is issued for,
\* and the path resolutions its input was built from
Ioctl(code, arg, by, req) ==
    [code |-> code, arg |-> arg, by |-> by, req |-> req, res |-> << >>]
ConfigIoctl(plan, by, req, res) ==
    [code |-> plan.code, arg |-> plan.arg, by |-> by, req |-> req, res |-> res]

(***************************************************************************)
(* DeviceHandle::new (driver.rs:212-258)                                   *)
(***************************************************************************)
\* OpenOptions::open(DRIVER_SYMBOLIC_NAME) and its error mapping.  The
\* device object exists from state Started on; before that the open fails
\* with file-not-found.
OpenOutcomes(state) ==
    IF state = StNone THEN {"ConnectionFailed"}
    ELSE {"Ok", "ConnectionDenied", "ConnectionError"}

OpenConnect ==
    /\ openPc = "connect"
    /\ \E out \in OpenOutcomes(drvState) :
          IF out = "Ok"
          THEN /\ handleOpen' = TRUE
               /\ openPc' = "query1"
               /\ UNCHANGED openResult
          ELSE /\ openResult' = out
               /\ openPc' = "done"
               /\ UNCHANGED handleOpen
    /\ UNCHANGED << drvState, drvConfig, drvIps, openLog, fnVars, evVars, sysVars >>

\* where new() goes after a state query: the step named by `match`, when the
\* state equals `expected`, else `otherwise`
AfterQueryAlways(state, expected, match, otherwise) == match
AfterQuery(state, expected, match, otherwise) ==
    IF state = expected THEN match ELSE otherwise

\* get_driver_state at either of its two call sites
OpenQuery(pc, expected, match, otherwise) ==
    /\ openPc = pc
    /\ openLog' = Append(openLog, Ioctl("GetState", drvState, "open", 0))
    /\ \E ioOk \in BOOLEAN :
          LET parsed == DriverState_try_from(drvState) IN
          IF ioOk /\ parsed.ok
          THEN /\ openPc' = AfterQuery(parsed.state, expected, match, otherwise)
               /\ UNCHANGED << openResult, handleOpen >>
          ELSE /\ openResult' = "GetStateError"
               /\ handleOpen' = FALSE
               /\ openPc' = "done"
    /\ UNCHANGED << drvState, drvConfig, drvIps, sysVars >>

OpenQuery1 == OpenQuery("query1", Started, "initialize", "query2")

OpenQuery2 == OpenQuery("query2", Initialized, "register", "clear")

\* device.initialize().map_err(InitializationError)?
InitializeIgnoringError(ok) == "query2"
InitializeStep(ok) == IF ok THEN "query2" ELSE "InitializationError"

OpenInitialize ==
    /\ openPc = "initialize"
    /\ openLog' = Append(openLog, Ioctl("Initialize", << >>, "open", 0))
    /\ \E ok \in BOOLEAN :
          /\ drvState' = IF ok /\ drvState = Started THEN Initialized ELSE drvState
          /\ IF InitializeStep(ok) = "query2"
             THEN /\ openPc' = "query2"
                  /\ UNCHANGED << openResult, handleOpen >>
             ELSE /\ openResult' = InitializeStep(ok)
                  /\ handleOpen' = FALSE
                  /\ openPc' = "done"
    /\ UNCHANGED << drvConfig, drvIps, sysVars >>

\* device.register_processes().map_err(RegisterProcessesError)?
\* build_process_tree may fail before any ioctl is issued
OpenRegisterProcesses ==
    /\ openPc = "register"
    /\ \E treeOk \in BOOLEAN, ok \in BOOLEAN :
          /\ openLog' = IF treeOk
                         THEN Append(openLog, Ioctl("RegisterProcesses", << >>, "open", 0))
                         ELSE openLog
          /\ drvState' = IF treeOk /\ ok /\ drvState = Initialized
                         THEN Ready ELSE drvState
          /\ IF treeOk /\ ok
             THEN /\ openPc' = "clear"
                  /\ UNCHANGED << openResult, handleOpen >>
             ELSE /\ openResult' = "RegisterProcessesError"
                  /\ handleOpen' = FALSE
                  /\ openPc' = "done"
    /\ UNCHANGED << drvConfig, drvIps, sysVars >>

\* device.clear_config().map_err(ClearConfigError)?; Ok(device)
OpenClearConfig ==
    /\ openPc = "clear"
    /\ openLog' = Append(openLog, Ioctl("ClearConfiguration", << >>, "open", 0))
    /\ \E ok \in BOOLEAN :
          /\ drvConfig' = IF ok THEN << >> ELSE drvConfig
          /\ drvState' = IF ok THEN DriverStateFor(drvState, << >>, drvIps)
                               ELSE drvState
          /\ openResult' = IF ok THEN "Ok" ELSE "ClearConfigError"
          /\ handleOpen' = ok
    /\ openPc' = "done"
    /\ UNCHANGED << drvIps, sysVars >>

\* the state SplitTunnel::new leaves behind, apart from the driver
SysInit ==
    /\ inflight = [t \in {"ser", "rr"} |-> NoIoctl]
    /\ sent = << >>
    /\ reqQ = << >>
    /\ resp = << >>
    /\ outcome = << >>
    /\ issued = << >>
    /\ serPc = "recv"
    /\ serCur = 0
    /\ handled = << >>
    /\ previous_addresses = DefaultAddresses
    /\ monitored_paths = << >>
    /\ pathsLock = "free"
    /\ pmPaths = << >>
    /\ notifyQ = 0
    /\ notifySent = 0
    /\ rrPc = "recv"
    /\ apiPc = "idle"
    /\ apiOp = "none"
    /\ apiCur = 0
    /\ async_path_update_in_progress = FALSE
    /\ asyncCalls = << >>
    /\ ctxs = << >>
    /\ osCallbacks = {}
    /\ cb = [t \in CbThreads |-> IdleCb]
    /\ cbFired = 0
    /\ blocks = 0
    /\ daemon_tx = TRUE
    /\ cbLog = << >>
    /\ quit_event = FALSE
    /\ evPc = "loop"
    /\ evBuf = NoBuffer
    /\ evCount = 0
    /\ snapshot = << >>
    /\ process_info = << >>
    /\ walked = << >>
    /\ registry = << >>
    /\ config_apps = << >>
    /\ config_buffer = NoConfig
    /\ tree_panicked = FALSE

\* the driver as DeviceHandle::new may find it: in any state, with what an
\* earlier session registered once the state allows it
OpenInit ==
    /\ drvState \in DriverStates \cup {RawUnknownState}
    /\ drvConfig \in {<< >>, PriorConfig}
    /\ drvIps \in {DefaultAddresses, PriorAddresses}
    /\ drvState \in {StNone, Started, Initialized} =>
          (drvConfig = << >> /\ drvIps = DefaultAddresses)
    /\ drvState = DriverStateFor(drvState, drvConfig, drvIps)
    /\ handleOpen = FALSE
    /\ openPc = "connect"
    /\ openResult = "none"
    /\ openLog = << >>
    /\ SysInit

OpenNext ==
    \/ OpenConnect
    \/ OpenQuery1
    \/ OpenInitialize
    \/ OpenQuery2
    \/ OpenRegisterProcesses
    \/ OpenClearConfig

SpecOpen == OpenInit /\ [][OpenNext]_vars


(***************************************************************************)
(* The request channel (mod.rs:143-148) and send_request_inner             *)
(* (mod.rs:478-488).                                                       *)
(***************************************************************************)
Request(kind, arg, by) == [kind |-> kind, arg |-> arg, by |-> by, ctx |-> 0]

\* ctx.register_ips() (mod.rs:627-632): RegisterIps with the addresses of the
\* handler context `ctx`, which the model records with the request
ContextRequest(ctx, addresses, by) ==
    [kind |-> "RegisterIps", arg |-> addresses, by |-> by, ctx |-> ctx]

\* requests that will still be sent by tasks already spawned and by
\* callbacks already delivered
SpawnedTasks == { i \in 1..Len(asyncCalls) : asyncCalls[i].state = "spawned" }
StartedCallbacks == { t \in CbThreads : cb[t].pc = "lock" }

\* the model's budget of requests is not used up
CanSend ==
    Len(sent) + Cardinality(SpawnedTasks) + Cardinality(StartedCallbacks) < MaxReq

\* request_tx.send((request, response_tx)): the request joins the queue and
\* its reply channel is created empty
SendRequest(request) ==
    /\ sent' = Append(sent, request)
    /\ reqQ' = Append(reqQ, Len(sent) + 1)
    /\ resp' = Append(resp, "pending")
    /\ outcome' = Append(outcome, "waiting")
    /\ issued' = Append(issued, NotIssued)

\* response_rx.recv_timeout(REQUEST_TIMEOUT) returning the reply that was sent
ReplyArrived(id) == outcome[id] = "waiting" /\ resp[id] # "pending"

\* response_rx.recv_timeout(REQUEST_TIMEOUT) running into the timeout: no
\* reply has been sent by then.  The receiver is dropped.
ReplyTimedOut(id) == outcome[id] = "waiting" /\ resp[id] = "pending"

(***************************************************************************)
(* DeviceHandle::set_config (driver.rs:360-396)                            *)
(***************************************************************************)
\* the loop over `apps`: res[i] is the outcome of get_device_path(apps[i]).
\* The result is the list of device paths, or "error" when a resolution
\* failed with anything but not-found.
RECURSIVE ResolvePaths(_, _, _, _)
ResolvePaths(apps, res, i, device_paths) ==
    IF i > Len(apps) THEN device_paths
    ELSE IF res[i] = "notfound" THEN ResolvePaths(apps, res, i + 1, device_paths)
    ELSE IF res[i] = "error" THEN "error"
    ELSE ResolvePaths(apps, res, i + 1, Append(device_paths, DevPath(apps[i])))

\* set_config without the is_empty() test
set_config_no_empty_check(apps, res) ==
    LET device_paths == ResolvePaths(apps, res, 1, << >>) IN
    IF device_paths = "error" THEN [kind |-> "error"]
    ELSE [kind |-> "ioctl", code |-> "SetConfiguration", arg |-> device_paths]

\* set_config treating not-found like any other error
set_config_notfound_fatal(apps, res) ==
    LET device_paths == ResolvePaths(apps, res, 1, << >>) IN
    IF device_paths = "error" \/ \E i \in 1..Len(res) : res[i] = "notfound"
    THEN [kind |-> "error"]
    ELSE [kind |-> "ioctl", code |-> "SetConfiguration", arg |-> device_paths]

\* what set_config does up to its ioctl: fails, or issues ClearConfiguration
\* (no path left) or SetConfiguration with the device paths
set_config(apps, res) ==
    LET device_paths == ResolvePaths(apps, res, 1, << >>) IN
    IF device_paths = "error" THEN [kind |-> "error"]
    ELSE IF device_paths = << >>
    THEN [kind |-> "ioctl", code |-> "ClearConfiguration", arg |-> << >>]
    ELSE [kind |-> "ioctl", code |-> "SetConfiguration", arg |-> device_paths]

\* clear_config (driver.rs:398-408)
clear_config == [kind |-> "ioctl", code |-> "ClearConfiguration", arg |-> << >>]

\* the driver's configuration after an ioctl completed
ConfigAfter(io, ok) ==
    IF ~ok THEN drvConfig
    ELSE IF io.code = "SetConfiguration" THEN io.arg
    ELSE IF io.code = "ClearConfiguration" THEN << >>
    ELSE drvConfig

\* the driver's addresses after an ioctl completed
IpsAfter(io, ok) ==
    IF ok /\ io.code = "RegisterIpAddresses" THEN io.arg ELSE drvIps

\* the driver completes the ioctl `io` with outcome `ok`
DriverCompletes(io, ok) ==
    /\ drvConfig' = ConfigAfter(io, ok)
    /\ drvIps' = IpsAfter(io, ok)
    /\ drvState' = DriverStateFor(drvState, ConfigAfter(io, ok), IpsAfter(io, ok))

(***************************************************************************)
(* The serialiser thread (mod.rs:377-436)                                  *)
(***************************************************************************)
\* rx.recv() on a std mpsc channel: the oldest queued request
TakeNewest(q) == Len(q)
TakeFirstWaiting(q) ==
    IF \E k \in 1..Len(q) : outcome[q[k]] = "waiting"
    THEN CHOOSE k \in 1..Len(q) :
            /\ outcome[q[k]] = "waiting"
            /\ \A m \in 1..(k - 1) : outcome[q[m]] # "waiting"
    ELSE 1
TakeIndex(q) == 1

RemoveAt(q, i) == SubSeq(q, 1, i - 1) \o SubSeq(q, i + 1, Len(q))

\* while let Ok((request, response_tx)) = rx.recv(): the request `id` leaves
\* the queue and becomes the one being handled
Recv(id) ==
    /\ serPc = "recv"
    /\ reqQ # << >>
    /\ id = reqQ[TakeIndex(reqQ)]
    /\ reqQ' = RemoveAt(reqQ, TakeIndex(reqQ))
    /\ handled' = Append(handled, id)

\* if response_tx.send(response).is_err() { log::error!(..) }: the loop goes
\* on whether or not the reply could be sent
AfterSendUnwrap(delivered) == IF delivered THEN "recv" ELSE "panicked"
AfterSend(delivered) == "recv"

\* the serialiser answers request `id` with `r`
Respond(id, r) ==
    /\ resp' = [resp EXCEPT ![id] = r]
    /\ serPc' = AfterSend(outcome[id] = "waiting")
    /\ serCur' = 0

\* the serialiser blocks in the ioctl `io` issued for request `id`
IssueIoctl(io, id) ==
    /\ issued' = [issued EXCEPT ![id].code = io.code, ![id].result = "inflight"]
    /\ inflight' = [inflight EXCEPT !["ser"] = io]
    /\ serPc' = "ioctl"
    /\ serCur' = id
    /\ UNCHANGED resp

\* monitored_paths.lock().unwrap() (mod.rs:382, 455) returns when no thread
\* holds the guard
PathsMutexIgnored(lock) == TRUE
PathsMutexFree(lock) == lock = "free"

\* Request::SetPaths up to the ioctl: paths.len() > 0 selects set_config,
\* else clear_config
SetPathsPlan(paths, res) ==
    IF Len(paths) > 0 THEN set_config(paths, res) ELSE clear_config

\* Request::SetPaths (mod.rs:381-388): lock the monitored paths, resolve the
\* paths and issue the ioctl; a resolution error is answered at once
SerSetPaths ==
    \E id \in 1..Len(sent) :
       /\ Recv(id)
       /\ sent[id].kind = "SetPaths"
       /\ PathsMutexFree(pathsLock)
       /\ LET paths == sent[id].arg IN
          \E res \in ResolveRuns(Len(paths)) :
             LET plan == SetPathsPlan(paths, res) IN
             IF plan.kind = "error"
             THEN /\ Respond(id, "SetConfiguration")
                  /\ issued' = [issued EXCEPT ![id].failed = res]
                  /\ UNCHANGED << inflight, pathsLock >>
             ELSE /\ IssueIoctl(ConfigIoctl(plan, "ser", id, res), id)
                  /\ pathsLock' = "ser"
       /\ UNCHANGED << drvVars, openVars, openLog, fnVars, evVars, sent, outcome, previous_addresses,
                       monitored_paths, pmPaths, rrVars, apiVars, asyncVars,
                       cbVars >>

\* the monitored-paths list after a SetPaths ioctl (mod.rs:390-400)
MonitoredKeptOnMonitorError(paths, ioctlOk, monitorOk) ==
    IF ioctlOk /\ monitorOk THEN paths ELSE monitored_paths

MonitoredClearedOnIoctlError(paths, ioctlOk, monitorOk) ==
    IF ioctlOk /\ monitorOk THEN paths ELSE << >>

MonitoredAfter(paths, ioctlOk, monitorOk) ==
    IF ~ioctlOk THEN monitored_paths
    ELSE IF monitorOk THEN paths ELSE << >>

\* the no-internet adjustment (mod.rs:405-408)
NoAdjust(ips) == ips
Adjust(ips) ==
    IF ips.internet_ipv4 = NoAddr /\ ips.internet_ipv6 = NoAddr
    THEN [ips EXCEPT !.tunnel_ipv4 = NoAddr, !.tunnel_ipv6 = NoAddr]
    ELSE ips

\* previous_addresses == ips (mod.rs:409)
NeverCached(previous, ips) == FALSE
IsCached(previous, ips) == previous = ips

\* Request::RegisterIps (mod.rs:404-425) up to the ioctl: the adjusted
\* addresses are answered Ok when they equal the cache, else sent to the driver
SerRegisterIps ==
    \E id \in 1..Len(sent) :
       /\ Recv(id)
       /\ sent[id].kind = "RegisterIps"
       /\ LET ips == Adjust(sent[id].arg) IN
          IF IsCached(previous_addresses, ips)
          THEN /\ Respond(id, "Ok")
               /\ UNCHANGED << issued, inflight >>
          ELSE IssueIoctl(Ioctl("RegisterIpAddresses", ips, "ser", id), id)
       /\ UNCHANGED << drvVars, openVars, openLog, fnVars, evVars, sent, outcome, previous_addresses,
                       monitored_paths, pathsLock, pmPaths, rrVars, apiVars,
                       asyncVars, cbVars >>

\* previous_addresses after a RegisterIpAddresses ioctl (mod.rs:426-428)
CacheAlways(ips, ok) == ips
CacheAfter(ips, ok) == IF ok THEN ips ELSE previous_addresses

\* the ioctl of the request being handled completes; the monitored paths or
\* the cache are updated (mod.rs:390-403, 426-429) and the response is sent
SerIoctlDone ==
    /\ serPc = "ioctl"
    /\ LET io == inflight["ser"] IN
       \E ok \in BOOLEAN, monitorOk \in BOOLEAN :
          /\ DriverCompletes(io, ok)
          /\ inflight' = [inflight EXCEPT !["ser"] = NoIoctl]
          /\ issued' = [issued EXCEPT ![serCur].result = IF ok THEN "ok" ELSE "failed"]
          /\ IF sent[serCur].kind = "SetPaths"
             THEN /\ monitored_paths' = MonitoredAfter(sent[serCur].arg, ok, monitorOk)
                  /\ pmPaths' = IF ok /\ monitorOk THEN sent[serCur].arg ELSE pmPaths
                  /\ pathsLock' = "free"
                  /\ Respond(serCur, IF ok THEN "Ok" ELSE "SetConfiguration")
                  /\ UNCHANGED previous_addresses
             ELSE /\ monitorOk
                  /\ previous_addresses' = CacheAfter(io.arg, ok)
                  /\ Respond(serCur, IF ok THEN "Ok" ELSE "RegisterIps")
                  /\ UNCHANGED << monitored_paths, pmPaths, pathsLock >>
    /\ UNCHANGED << openVars, openLog, fnVars, evVars, sent, reqQ, outcome, handled,
                    rrVars, apiVars, asyncVars, cbVars >>

(***************************************************************************)
(* The path re-resolver thread (mod.rs:453-469) and the path monitor       *)
(***************************************************************************)
\* the path monitor or the volume monitor sends () on monitor_tx
PathChanged ==
    /\ notifySent < MaxNotify
    /\ notifySent' = notifySent + 1
    /\ notifyQ' = notifyQ + 1
    /\ UNCHANGED << drvVars, openVars, openLog, fnVars, evVars, inflight, chanVars, serVars,
                    rrPc, apiVars, asyncVars, cbVars >>

\* if paths.len() > 0 { set_config(&*paths) } else { continue } (mod.rs:456-461)
ReResolvesAlways(paths) == TRUE
ReResolves(paths) == Len(paths) > 0

\* monitor_rx.recv(), lock, and set_config(&*paths) up to its ioctl; an empty
\* list or a resolution error ends the iteration
RrRecv ==
    /\ rrPc = "recv"
    /\ notifyQ > 0
    /\ PathsMutexFree(pathsLock)
    /\ notifyQ' = notifyQ - 1
    /\ IF ReResolves(monitored_paths)
       THEN \E res \in ResolveRuns(Len(monitored_paths)) :
               LET plan == set_config(monitored_paths, res) IN
               IF plan.kind = "error"
               THEN UNCHANGED << inflight, pathsLock, rrPc >>
               ELSE /\ inflight' = [inflight EXCEPT !["rr"] =
                                       ConfigIoctl(plan, "rr", 0, res)]
                    /\ pathsLock' = "rr"
                    /\ rrPc' = "ioctl"
       ELSE UNCHANGED << inflight, pathsLock, rrPc >>
    /\ UNCHANGED << drvVars, openVars, openLog, fnVars, evVars, chanVars, serPc, serCur, handled,
                    previous_addresses, monitored_paths, pmPaths, notifySent,
                    apiVars, asyncVars, cbVars >>

\* the re-resolver's ioctl completes; a failure is logged; the guard is dropped
RrIoctlDone ==
    /\ rrPc = "ioctl"
    /\ \E ok \in BOOLEAN : DriverCompletes(inflight["rr"], ok)
    /\ inflight' = [inflight EXCEPT !["rr"] = NoIoctl]
    /\ pathsLock' = "free"
    /\ rrPc' = "recv"
    /\ UNCHANGED << openVars, openLog, fnVars, evVars, chanVars, serPc, serCur, handled,
                    previous_addresses, monitored_paths, pmPaths, notifyQ,
                    notifySent, apiVars, asyncVars, cbVars >>


(***************************************************************************)
(* SplitTunnel::set_paths_sync (mod.rs:491-498)                            *)
(***************************************************************************)
\* the SplitTunnel value has been dropped: its owner makes no further call
Dropped == \E i \in 1..Len(sent) : sent[i].by = "drop"

ApiSetPathsSync ==
    /\ apiPc = "idle"
    /\ ~Dropped
    /\ CanSend
    /\ \E paths \in PathInputs : SendRequest(Request("SetPaths", paths, "api"))
    /\ apiPc' = "wait"
    /\ apiOp' = "set_paths_sync"
    /\ apiCur' = Len(sent) + 1
    /\ UNCHANGED << drvVars, openVars, openLog, fnVars, evVars, inflight, serVars, rrVars,
                    asyncVars, cbVars >>

(***************************************************************************)
(* SplitTunnel::set_tunnel_addresses (mod.rs:537-574) and                  *)
(* clear_tunnel_addresses (mod.rs:577-580)                                 *)
(***************************************************************************)
\* the invocations of the callbacks of `registered` that have not returned
Running(registered) ==
    { t \in CbThreads : cb[t].pc # "idle" /\ cb[t].ctx \in registered }

\* dropping a WinNetCallbackHandle unregisters the callback and frees the
\* context the handler dereferences (mod.rs:683): it returns once no
\* invocation of the callback is running, and none starts afterwards
CanDrop(registered) == Running(registered) = {}

\* self._route_change_callback = None (mod.rs:560, 578)
KeepCallback(registered) == registered
DropCallback(registered) == {}

\* the loop over metadata.ips (mod.rs:541-548): each address of a family
\* overwrites the one kept so far
RECURSIVE TunnelIps(_, _, _, _)
TunnelIps(ips, i, tunnel_ipv4, tunnel_ipv6) ==
    IF i > Len(ips) THEN [tunnel_ipv4 |-> tunnel_ipv4, tunnel_ipv6 |-> tunnel_ipv6]
    ELSE IF ips[i].family = 4
    THEN TunnelIps(ips, i + 1, ips[i].addr, tunnel_ipv6)
    ELSE TunnelIps(ips, i + 1, tunnel_ipv4, ips[i].addr)

\* the addresses of a fresh context (mod.rs:550, 609-625)
NewContextAddresses(metadata) ==
    LET t == TunnelIps(metadata.ips, 1, NoAddr, NoAddr) IN
    [tunnel_ipv4 |-> IF t.tunnel_ipv4 = NoAddr THEN RESERVED_IP_V4 ELSE t.tunnel_ipv4,
     tunnel_ipv6 |-> t.tunnel_ipv6,
     internet_ipv4 |-> NoAddr, internet_ipv6 |-> NoAddr]

\* addresses in the list a tunnel may advertise
MaxIps == 4

\* the addresses a tunnel may advertise, two of each family
AdvertisedIps ==
    { Ip(4, "10.64.0.2"), Ip(4, "10.64.0.3"),
      Ip(6, "fc00:bbbb::2"), Ip(6, "fc00:bbbb::3") }

\* every metadata argument with up to MaxIps advertised addresses
AllMetadata ==
    {NoMetadata} \cup
    { Metadata(ips) : ips \in UNION { [1..n -> AdvertisedIps] : n \in 0..MaxIps } }

\* set_tunnel_addresses from its entry to the fresh context (mod.rs:538-558),
\* on its own: the tunnel addresses are taken from the metadata
NewContext ==
    /\ ctxs = << >>
    /\ \E metadata \in AllMetadata :
          ctxs' = << [addresses |-> NewContextAddresses(metadata), lock |-> "free",
                      metadata |-> metadata] >>
    /\ UNCHANGED << drvVars, openVars, openLog, fnVars, evVars, inflight, chanVars, serVars,
                    rrVars, apiVars, asyncVars, osCallbacks, cb, cbFired, blockVars >>

\* set_tunnel_addresses failing before any request is sent: the callback could
\* not be registered (RegisterRouteChangeCallback), or
\* initialize_internet_addresses failed (ObtainDefaultRoute, LuidToIp,
\* IpParseError).  The old callback is gone and the new one is dropped on
\* return.
ApiSetTunnelAddressesFails ==
    /\ apiPc = "idle"
    /\ CanDrop(osCallbacks)
    /\ osCallbacks' = DropCallback(osCallbacks)
    /\ UNCHANGED << drvVars, openVars, openLog, fnVars, evVars, inflight, chanVars, serVars,
                    rrVars, apiPc, apiOp, apiCur, asyncVars, ctxs, cb, cbFired,
                    blockVars >>

\* let mut context = context_mutex.lock().unwrap() (mod.rs:561), taken
\* before the callback is registered and held until the function returns
LockedByNobody(thread) == "free"
LockedBy(thread) == thread

\* set_tunnel_addresses up to the wait for its RegisterIps: the old callback
\* is dropped, the fresh context is locked, the callback registered, the
\* internet addresses seeded and the request sent
ApiSetTunnelAddresses ==
    /\ apiPc = "idle"
    /\ CanSend
    /\ CanDrop(osCallbacks)
    /\ \E metadata \in MetadataInputs,
          v4 \in {NoAddr, InternetV4}, v6 \in {NoAddr, InternetV6} :
          LET addresses == [NewContextAddresses(metadata) EXCEPT
                               !.internet_ipv4 = v4, !.internet_ipv6 = v6] IN
          /\ ctxs' = Append(ctxs, [addresses |-> addresses,
                                   lock |-> LockedBy("api"),
                                   metadata |-> metadata])
          /\ SendRequest(ContextRequest(Len(ctxs) + 1, addresses, "api"))
    /\ osCallbacks' = DropCallback(osCallbacks) \cup {Len(ctxs) + 1}
    /\ apiPc' = "wait"
    /\ apiOp' = "set_tunnel_addresses"
    /\ apiCur' = Len(sent) + 1
    /\ UNCHANGED << drvVars, openVars, openLog, fnVars, evVars, inflight, serVars, rrVars,
                    asyncVars, cb, cbFired, blockVars >>

\* clear_tunnel_addresses up to the wait for its RegisterIps(default)
ApiClearTunnelAddresses ==
    /\ apiPc = "idle"
    /\ CanSend
    /\ CanDrop(osCallbacks)
    /\ osCallbacks' = DropCallback(osCallbacks)
    /\ SendRequest(Request("RegisterIps", DefaultAddresses, "api"))
    /\ apiPc' = "wait"
    /\ apiOp' = "clear_tunnel_addresses"
    /\ apiCur' = Len(sent) + 1
    /\ UNCHANGED << drvVars, openVars, openLog, fnVars, evVars, inflight, serVars, rrVars,
                    asyncVars, ctxs, cb, cbFired, blockVars >>

\* the registered callbacks as set_tunnel_addresses returns `result`: Ok
\* stores the handle in _route_change_callback (mod.rs:572); on an error the
\* local handle is dropped
CallbackKeptAfter(result, registered) == registered
CallbackAfter(result, registered) ==
    IF result = "Ok" THEN registered ELSE DropCallback(registered)

\* the API thread's synchronous call returns `result`.  set_tunnel_addresses
\* keeps the callback on Ok and releases the context.  On an error its locals
\* are dropped in reverse order: the callback first, with the context still
\* locked (mod.rs:561-570); when an invocation of that callback is waiting for
\* the context the drop cannot finish and the call does not return.
ApiReturns(result) ==
    /\ outcome' = [outcome EXCEPT ![apiCur] = result]
    /\ IF apiOp = "set_tunnel_addresses" /\ result # "Ok" /\ ~CanDrop(osCallbacks)
       THEN /\ apiPc' = "drop"
            /\ UNCHANGED << apiOp, apiCur, ctxs, osCallbacks >>
       ELSE /\ apiPc' = "idle"
            /\ apiOp' = "none"
            /\ apiCur' = 0
            /\ IF apiOp = "set_tunnel_addresses"
               THEN /\ ctxs' = [ctxs EXCEPT ![Len(ctxs)].lock = "free"]
                    /\ osCallbacks' = CallbackAfter(result, osCallbacks)
               ELSE UNCHANGED << ctxs, osCallbacks >>
    /\ UNCHANGED << drvVars, openVars, openLog, fnVars, evVars, inflight, sent, reqQ, resp, issued,
                    serVars, rrVars, asyncVars, cb, cbFired, blockVars >>

\* send_request_inner: recv_timeout returns the reply
ApiReply ==
    /\ apiPc = "wait"
    /\ ReplyArrived(apiCur)
    /\ ApiReturns(resp[apiCur])

\* send_request_inner: recv_timeout(REQUEST_TIMEOUT) times out
ApiTimeout ==
    /\ apiPc = "wait"
    /\ ReplyTimedOut(apiCur)
    /\ ApiReturns("RequestThreadStuck")

(***************************************************************************)
(* SplitTunnel::set_paths (mod.rs:501-533)                                 *)
(***************************************************************************)
\* async_path_update_in_progress.swap(true, SeqCst): the old value
SwapNeverBusy(flag) == FALSE
SwapBusy(flag) == flag

\* the call itself: the flag is swapped; a busy call is answered
\* AlreadySettingPaths on result_tx, any other spawns the blocking task
ApiSetPathsAsync ==
    /\ apiPc = "idle"
    /\ ~Dropped
    /\ Len(asyncCalls) < MaxAsync
    /\ IF SwapBusy(async_path_update_in_progress)
       THEN asyncCalls' = Append(asyncCalls,
                [paths |-> << >>, state |-> "rejected", req |-> 0,
                 result |-> "AlreadySettingPaths"])
       ELSE /\ CanSend
            /\ \E paths \in PathInputs :
                  asyncCalls' = Append(asyncCalls,
                      [paths |-> paths, state |-> "spawned", req |-> 0,
                       result |-> "none"])
    /\ async_path_update_in_progress' = TRUE
    /\ UNCHANGED << drvVars, openVars, openLog, fnVars, evVars, inflight, chanVars, serVars,
                    rrVars, apiVars, cbVars >>

\* Drop for SplitTunnel (mod.rs:583-600) up to the wait inside
\* set_paths_sync(&[]): the quit event is set, the event thread is not
\* joined, and SetPaths(empty) is sent.  Blocking tasks spawned by earlier
\* set_paths calls hold their own clone of request_tx and run on.
ApiDrop ==
    /\ apiPc = "idle"
    /\ ~Dropped
    /\ CanSend
    /\ quit_event' = TRUE
    /\ SendRequest(Request("SetPaths", << >>, "drop"))
    /\ apiPc' = "wait"
    /\ apiOp' = "drop"
    /\ apiCur' = Len(sent) + 1
    /\ UNCHANGED << drvVars, openVars, openLog, fnVars, evPc, evBuf, evCount, inflight,
                    serVars, rrVars, asyncVars, cbVars >>

\* wait_task: request_tx.send((request, response_tx))
TaskSend(i) ==
    /\ asyncCalls[i].state = "spawned"
    /\ SendRequest(Request("SetPaths", asyncCalls[i].paths, "task"))
    /\ asyncCalls' = [asyncCalls EXCEPT ![i].state = "waiting",
                                        ![i].req = Len(sent) + 1]
    /\ UNCHANGED << drvVars, openVars, openLog, fnVars, evVars, inflight, serVars, rrVars,
                    apiVars, async_path_update_in_progress, cbVars >>

\* wait_task: response_rx.recv() returns the reply, which is passed on with
\* result_tx.send(..)
TaskReply(i) ==
    /\ asyncCalls[i].state = "waiting"
    /\ ReplyArrived(asyncCalls[i].req)
    /\ outcome' = [outcome EXCEPT ![asyncCalls[i].req] = resp[asyncCalls[i].req]]
    /\ asyncCalls' = [asyncCalls EXCEPT ![i].state = "delivered",
                                        ![i].result = resp[asyncCalls[i].req]]
    /\ UNCHANGED << drvVars, openVars, openLog, fnVars, evVars, inflight, sent, reqQ, resp, issued,
                    serVars, rrVars, apiVars, async_path_update_in_progress,
                    cbVars >>

\* in_progress.store(false, SeqCst)
TaskClearFlag(i) ==
    /\ asyncCalls[i].state = "delivered"
    /\ async_path_update_in_progress' = FALSE
    /\ asyncCalls' = [asyncCalls EXCEPT ![i].state = "done"]
    /\ UNCHANGED << drvVars, openVars, openLog, fnVars, evVars, inflight, chanVars, serVars,
                    rrVars, apiVars, cbVars >>

(***************************************************************************)
(* split_tunnel_default_route_change_handler (mod.rs:674-754)              *)
(***************************************************************************)
\* the OS's threads are interchangeable: it takes the first idle one
CbOrder(t) == IF t = "cb1" THEN 1 ELSE 2

\* the OS delivers a route change to the registered callback
CbFire(t) ==
    /\ cb[t].pc = "idle"
    /\ \A u \in CbThreads : cb[u].pc = "idle" => CbOrder(t) <= CbOrder(u)
    /\ cbFired < MaxCallbacks
    /\ CanSend
    /\ \E c \in osCallbacks, event \in {"Changed", "Removed"}, family \in {4, 6} :
          cb' = [cb EXCEPT ![t] = [pc |-> "lock", ctx |-> c,
                                   event |-> event, family |-> family, req |-> 0,
                                   tx |-> FALSE]]
    /\ cbFired' = cbFired + 1
    /\ UNCHANGED << drvVars, openVars, openLog, fnVars, evVars, inflight, chanVars, serVars,
                    rrVars, apiVars, asyncVars, ctxs, osCallbacks, blockVars >>

\* the context's addresses with the internet address of `family` replaced
WithInternetAdjusted(addresses, family, addr) ==
    Adjust(IF family = 4 THEN [addresses EXCEPT !.internet_ipv4 = addr]
                         ELSE [addresses EXCEPT !.internet_ipv6 = addr])
WithInternet(addresses, family, addr) ==
    IF family = 4 THEN [addresses EXCEPT !.internet_ipv4 = addr]
                  ELSE [addresses EXCEPT !.internet_ipv6 = addr]

\* outcomes of interface_luid_to_ip for a Changed/UpdatedDetails event; a
\* Removed event needs no lookup
LuidOutcomes(event) ==
    IF event = "Removed" THEN {"none"} ELSE {"some", "none", "error"}

\* ctx_mutex.lock() (mod.rs:684) returns when no thread holds the context
MutexIgnored(lock) == TRUE
MutexFree(lock) == lock = "free"

\* maybe_send (mod.rs:686-691): Block is sent when the invocation failed and
\* ctx.daemon_tx.upgrade() had given a sender
SendsBlockUnchecked(failed, tx) == failed
SendsBlock(failed, tx) == failed /\ tx

\* the invocation returns, having sent `n` Block commands
Returned(failed, tx, n) == [failed |-> failed, tx |-> tx, blocks |-> n]

\* the daemon drops its sender; Weak::upgrade fails from then on
DaemonGone ==
    /\ daemon_tx
    /\ daemon_tx' = FALSE
    /\ UNCHANGED << drvVars, openVars, openLog, fnVars, evVars, inflight, chanVars, serVars,
                    rrVars, apiVars, asyncVars, ctxs, osCallbacks, cb, cbFired,
                    blocks, cbLog >>

\* the match on interface_luid_to_ip's result (mod.rs:699-726): only Err(..)
\* sends Block and returns; Ok(None) clears the address and goes on
LookupFailsOnNone(r) == r # "some"
LookupFails(r) == r = "error"

\* the handler from ctx_mutex.lock() to the wait inside ctx.register_ips():
\* the daemon's sender is upgraded, the internet address of the family is
\* updated and the request sent; a failed lookup sends Block and returns
CbHandle(t) ==
    /\ cb[t].pc = "lock"
    /\ MutexFree(ctxs[cb[t].ctx].lock)
    /\ \E r \in LuidOutcomes(cb[t].event) :
          IF LookupFails(r)
          THEN LET n == IF SendsBlock(TRUE, daemon_tx) THEN 1 ELSE 0 IN
               /\ blocks' = blocks + n
               /\ cbLog' = Append(cbLog, Returned(TRUE, daemon_tx, n))
               /\ cb' = [cb EXCEPT ![t] = IdleCb]
               /\ UNCHANGED << chanVars, ctxs >>
          ELSE LET addresses ==
                      WithInternet(ctxs[cb[t].ctx].addresses, cb[t].family,
                          IF r = "some" THEN InternetAddr(cb[t].family) ELSE NoAddr)
               IN /\ ctxs' = [ctxs EXCEPT ![cb[t].ctx].addresses = addresses,
                                               ![cb[t].ctx].lock = t]
                  /\ SendRequest(ContextRequest(cb[t].ctx, addresses, t))
                  /\ cb' = [cb EXCEPT ![t].pc = "wait", ![t].req = Len(sent) + 1,
                                      ![t].tx = daemon_tx]
                  /\ UNCHANGED << blocks, cbLog >>
    /\ UNCHANGED << drvVars, openVars, openLog, fnVars, evVars, inflight, serVars, rrVars,
                    apiVars, asyncVars, osCallbacks, cbFired, daemon_tx >>

\* ctx.register_ips() returns `result`; an error sends Block; the context is
\* unlocked as the handler returns
CbReturns(t, result) ==
    /\ outcome' = [outcome EXCEPT ![cb[t].req] = result]
    /\ LET n == IF SendsBlock(result # "Ok", cb[t].tx) THEN 1 ELSE 0 IN
          /\ blocks' = blocks + n
          /\ cbLog' = Append(cbLog, Returned(result # "Ok", cb[t].tx, n))
    /\ ctxs' = [ctxs EXCEPT ![cb[t].ctx].lock = "free"]
    /\ cb' = [cb EXCEPT ![t] = IdleCb]
    /\ UNCHANGED << drvVars, openVars, openLog, fnVars, evVars, inflight, sent, reqQ, resp, issued,
                    serVars, rrVars, apiVars, asyncVars, osCallbacks, cbFired,
                    daemon_tx >>

CbReply(t) ==
    /\ cb[t].pc = "wait"
    /\ ReplyArrived(cb[t].req)
    /\ CbReturns(t, resp[cb[t].req])

CbTimeout(t) ==
    /\ cb[t].pc = "wait"
    /\ ReplyTimedOut(cb[t].req)
    /\ CbReturns(t, "RequestThreadStuck")

(***************************************************************************)
(* build_process_tree (driver.rs:503-566) and serialize_process_tree       *)
(* (driver.rs:586-640)                                                     *)
(***************************************************************************)
\* processes in a snapshot; pid MaxProcs + 1 is a parent that is not in it
MaxProcs == 3
Pids == 1..MaxProcs
ParentPids == 0..(MaxProcs + 1)

\* creation times (FILETIME; 0 also stands for unwrap_or(0))
CreationTimes == {0, 1}

ProcessInfo(pid, parent_pid, creation_time) ==
    [pid |-> pid, parent_pid |-> parent_pid, creation_time |-> creation_time]

\* the maps the snapshot loop can build (driver.rs:507-543): the entries are
\* inserted as the snapshot gives them, whatever parent it names
Snapshots ==
    { m \in [Pids -> [pid : Pids, parent_pid : ParentPids,
                      creation_time : CreationTimes]] :
         \A p \in Pids : m[p].pid = p }

\* parent_info.creation_time > info.creation_time (driver.rs:555)
NotOlder(parent_time, child_time) == parent_time >= child_time
Younger(parent_time, child_time) == parent_time > child_time

\* parent_info.borrow_mut() (driver.rs:555) while `info` is mutably borrowed
\* (driver.rs:549): the RefCell of the process itself cannot be borrowed again
AlreadyBorrowed(pid, parent_pid) == parent_pid = pid

\* the snapshot loop: the map as first built
TakeSnapshot ==
    /\ snapshot = << >>
    /\ snapshot' \in Snapshots
    /\ process_info' = snapshot'
    /\ UNCHANGED << drvVars, openVars, openLog, inflight, chanVars, serVars,
                    rrVars, apiVars, asyncVars, cbVars, evVars, walked, registry,
                    config_apps, config_buffer, tree_panicked >>

\* one iteration of `for info in process_info.values()` (driver.rs:547-559),
\* in whatever order the HashMap yields its values
TreeWalk ==
    /\ snapshot # << >>
    /\ ~tree_panicked
    /\ \E p \in Pids \ { walked[i] : i \in 1..Len(walked) } :
          LET info == process_info[p]
              parent_pid == info.parent_pid IN
          IF /\ parent_pid # 0
             /\ parent_pid \in DOMAIN process_info
             /\ AlreadyBorrowed(p, parent_pid)
          THEN /\ tree_panicked' = TRUE
               /\ UNCHANGED << walked, process_info >>
          ELSE /\ walked' = Append(walked, p)
               /\ process_info' =
                     IF /\ parent_pid # 0
                        /\ parent_pid \in DOMAIN process_info
                        /\ Younger(process_info[parent_pid].creation_time,
                                   info.creation_time)
                     THEN [process_info EXCEPT ![p].parent_pid = 0]
                     ELSE process_info
               /\ UNCHANGED tree_panicked
    /\ UNCHANGED << drvVars, openVars, openLog, inflight, chanVars, serVars,
                    rrVars, apiVars, asyncVars, cbVars, evVars, snapshot, registry,
                    config_apps, config_buffer >>

\* serialize_process_tree: one ProcessRegistryEntry per process, in the
\* order of into_iter()
TreeSerialize ==
    /\ Len(walked) = MaxProcs
    /\ registry = << >>
    /\ registry' = [i \in 1..Len(walked) |->
                      [pid |-> process_info[walked[i]].pid,
                       parent_pid |-> process_info[walked[i]].parent_pid]]
    /\ UNCHANGED << drvVars, openVars, openLog, inflight, chanVars, serVars,
                    rrVars, apiVars, asyncVars, cbVars, evVars, snapshot,
                    process_info, walked, config_apps,
                    config_buffer, tree_panicked >>

NextTree ==
    \/ TakeSnapshot
    \/ TreeWalk
    \/ TreeSerialize

(***************************************************************************)
(* make_process_config (driver.rs:445-492)                                 *)
(***************************************************************************)
\* paths in one configuration
MaxPaths == 3

\* lengths of a path in UTF-16 code units (encode_wide), around the point
\* where its byte length no longer fits name_length
PathUnits == {0, 1, 2, 32767, 32768}

AppLists == UNION { [1..n -> PathUnits] : n \in 0..MaxPaths }

\* size_of::<ConfigurationHeader>(): two usize
ConfigurationHeaderSize == 16
\* size_of::<ConfigurationEntry>(): usize, u16, padded to the alignment of usize
ConfigurationEntrySize == 16

\* size_of::<u16>() * app.len()
ByteLen(app) == 2 * app

\* `as u16`
AsU16(n) == n % 65536

\* apps.iter().map(|app| size_of::<u16>() * app.len()).sum()
RECURSIVE TotalStringSize(_)
TotalStringSize(list) ==
    IF list = << >> THEN 0 ELSE ByteLen(Head(list)) + TotalStringSize(Tail(list))

\* the function up to its loop: the zeroed buffer of total_buffer_size bytes
\* with the header written
MakeConfigHeader ==
    /\ config_buffer.pc = "none"
    /\ \E list \in AppLists :
          LET total_buffer_size == ConfigurationHeaderSize
                                     + ConfigurationEntrySize * Len(list)
                                     + TotalStringSize(list) IN
          /\ config_apps' = list
          /\ config_buffer' = [pc |-> "loop",
                        header |-> [num_entries |-> Len(list),
                                    total_length |-> total_buffer_size],
                        size |-> total_buffer_size,
                        entries |-> << >>, strings |-> << >>,
                        string_offset |-> 0]
    /\ UNCHANGED << drvVars, openVars, openLog, inflight, chanVars, serVars,
                    rrVars, apiVars, asyncVars, cbVars, evVars, snapshot,
                    process_info, walked, registry, tree_panicked >>

\* one iteration of the loop: the string is written at string_offset of the
\* string region and entry i at its slot of the entry region
MakeConfigEntry ==
    /\ config_buffer.pc = "loop"
    /\ Len(config_buffer.entries) < Len(config_apps)
    /\ LET i == Len(config_buffer.entries)
           app == config_apps[i + 1]
           app_bytelen == ByteLen(app) IN
       config_buffer' = [config_buffer EXCEPT
          !.strings = Append(@, [at |-> config_buffer.string_offset,
                                 bytes |-> app_bytelen]),
          !.entries = Append(@, [at |-> ConfigurationEntrySize * i,
                                 name_offset |-> config_buffer.string_offset,
                                 name_length |-> AsU16(app_bytelen)]),
          !.string_offset = @ + app_bytelen]
    /\ UNCHANGED << drvVars, openVars, openLog, inflight, chanVars, serVars,
                    rrVars, apiVars, asyncVars, cbVars, evVars, snapshot,
                    process_info, walked, registry, config_apps,
                    tree_panicked >>

\* the loop is over and the buffer is returned
MakeConfigReturn ==
    /\ config_buffer.pc = "loop"
    /\ Len(config_buffer.entries) = Len(config_apps)
    /\ config_buffer' = [config_buffer EXCEPT !.pc = "done"]
    /\ UNCHANGED << drvVars, openVars, openLog, inflight, chanVars, serVars,
                    rrVars, apiVars, asyncVars, cbVars, evVars, snapshot,
                    process_info, walked, registry, config_apps,
                    tree_panicked >>

NextConfig ==
    \/ MakeConfigHeader
    \/ MakeConfigEntry
    \/ MakeConfigReturn

(***************************************************************************)
(* The event thread (mod.rs:194-329)                                       *)
(***************************************************************************)
\* the top of the loop: a set quit event ends the thread; otherwise the
\* DequeEvent ioctl is issued, and a failure to issue it is logged and the
\* loop continues
EvDequeue ==
    /\ evPc = "loop"
    /\ IF quit_event
       THEN /\ evPc' = "exited"
            /\ UNCHANGED evCount
       ELSE /\ evCount < MaxEvents
            /\ evCount' = evCount + 1
            /\ \E issued_ok \in BOOLEAN :
                  evPc' = IF issued_ok THEN "wait" ELSE "loop"
    /\ UNCHANGED << drvVars, openVars, openLog, fnVars, inflight, chanVars, serVars,
                    rrVars, apiVars, asyncVars, cbVars, quit_event, evBuf >>

\* WaitForMultipleObjects returns for the quit event
EvQuit ==
    /\ evPc = "wait"
    /\ quit_event
    /\ evPc' = "exited"
    /\ UNCHANGED << drvVars, openVars, openLog, fnVars, inflight, chanVars, serVars,
                    rrVars, apiVars, asyncVars, cbVars, quit_event, evBuf, evCount >>

\* the ioctl completes: a failed wait or GetOverlappedResult is logged and
\* the loop continues; otherwise the returned bytes are parsed, None
\* continues the loop, an event is logged, and a panic unwinds the thread
EvComplete ==
    /\ evPc = "wait"
    /\ \/ UNCHANGED evBuf /\ evPc' = "loop"
       \/ \E buffer \in EventBuffers :
             /\ evBuf' = buffer
             /\ evPc' = IF parse_event_buffer(buffer) = "panic" THEN "panicked"
                                                               ELSE "loop"
    /\ UNCHANGED << drvVars, openVars, openLog, fnVars, inflight, chanVars, serVars,
                    rrVars, apiVars, asyncVars, cbVars, quit_event, evCount >>

EvNext ==
    \/ EvDequeue
    \/ EvQuit
    \/ EvComplete

(***************************************************************************)
(* The specification of the running controller.  Init is the state after   *)
(* SplitTunnel::new returned Ok on a freshly started driver.               *)
(***************************************************************************)
Init ==
    /\ drvState = Ready
    /\ drvConfig = << >>
    /\ drvIps = DefaultAddresses
    /\ handleOpen = TRUE
    /\ openPc = "done"
    /\ openResult = "Ok"
    /\ openLog = << >>
    /\ SysInit

\* the controller with the tunnel up: set_tunnel_addresses has returned Ok
\* for context 1, whose callback is registered; the serialiser's cache and
\* the driver hold what that call registered
TunnelUpAddresses(v4) ==
    [NewContextAddresses(Metadata(<< Ip(4, "10.64.0.2"), Ip(6, "fc00:bbbb::2") >>))
        EXCEPT !.internet_ipv4 = v4]

InitTunnelUp ==
    \E v4 \in {InternetV4} :
       /\ drvState = DriverStateFor(Ready, << >>, Adjust(TunnelUpAddresses(v4)))
       /\ drvConfig = << >>
       /\ drvIps = Adjust(TunnelUpAddresses(v4))
       /\ handleOpen = TRUE
       /\ openPc = "done"
       /\ openResult = "Ok"
       /\ openLog = << >>
       /\ inflight = [t \in {"ser", "rr"} |-> NoIoctl]
       /\ sent = << >>
       /\ reqQ = << >>
       /\ resp = << >>
       /\ outcome = << >>
       /\ issued = << >>
       /\ serPc = "recv"
       /\ serCur = 0
       /\ handled = << >>
       /\ previous_addresses = Adjust(TunnelUpAddresses(v4))
       /\ monitored_paths = << >>
       /\ pathsLock = "free"
       /\ pmPaths = << >>
       /\ notifyQ = 0
       /\ notifySent = 0
       /\ rrPc = "recv"
       /\ apiPc = "idle"
       /\ apiOp = "none"
       /\ apiCur = 0
       /\ async_path_update_in_progress = FALSE
       /\ asyncCalls = << >>
       /\ ctxs = << [addresses |-> TunnelUpAddresses(v4), lock |-> "free",
                     metadata |-> Metadata(<< Ip(4, "10.64.0.2"),
                                              Ip(6, "fc00:bbbb::2") >>)] >>
       /\ osCallbacks = {1}
       /\ cb = [t \in CbThreads |-> IdleCb]
       /\ cbFired = 0
       /\ blocks = 0
       /\ daemon_tx = TRUE
       /\ cbLog = << >>
       /\ quit_event = FALSE
       /\ evPc = "loop"
       /\ evBuf = NoBuffer
       /\ evCount = 0
       /\ snapshot = << >>
       /\ process_info = << >>
       /\ walked = << >>
       /\ registry = << >>
       /\ config_apps = << >>
       /\ config_buffer = NoConfig
       /\ tree_panicked = FALSE

\* the holders of a request_tx: the SplitTunnel until its drop has returned
\* (mod.rs:111), the blocking task of a set_paths call until it ends
\* (mod.rs:520), the context of a registered route callback (mod.rs:603)
SendersDropped ==
    /\ Dropped
    /\ apiPc = "idle"
    /\ \A i \in 1..Len(asyncCalls) : asyncCalls[i].state \in {"rejected", "done"}
    /\ osCallbacks = {}
    /\ \A t \in CbThreads : cb[t].pc = "idle"

\* rx.recv() returns Err (mod.rs:379): every sender is gone and the queue has
\* been drained
DisconnectedEarly(q, dropped) == dropped
Disconnected(q, dropped) == q = << >> /\ dropped

\* the serialiser leaves its while-let loop
SerLeave ==
    /\ serPc = "recv"
    /\ Disconnected(reqQ, SendersDropped)
    /\ serPc' = "teardown"
    /\ UNCHANGED << drvVars, openVars, openLog, fnVars, evVars, inflight, chanVars, serCur,
                    handled, previous_addresses, monitored_paths, pathsLock,
                    pmPaths, rrVars, apiVars, asyncVars, cbVars >>

\* drop(volume_monitor); path_monitor.shutdown(), whose error is only logged
\* (mod.rs:438-444); the thread's closure ends
SerTeardown ==
    /\ serPc = "teardown"
    /\ serPc' = "exited"
    /\ UNCHANGED << drvVars, openVars, openLog, fnVars, evVars, inflight, chanVars, serCur,
                    handled, previous_addresses, monitored_paths, pathsLock,
                    pmPaths, rrVars, apiVars, asyncVars, cbVars >>

\* the threads of asynchronous set_paths calls
TaskNext ==
    \/ \E i \in 1..Len(asyncCalls) : TaskSend(i)
    \/ \E i \in 1..Len(asyncCalls) : TaskReply(i)
    \/ \E i \in 1..Len(asyncCalls) : TaskClearFlag(i)

\* the route-change callbacks
CbNext ==
    \/ \E t \in CbThreads : CbFire(t)
    \/ \E t \in CbThreads : CbHandle(t)
    \/ \E t \in CbThreads : CbReply(t)
    \/ \E t \in CbThreads : CbTimeout(t)

\* excluded paths set synchronously, with the re-resolver running
NextSync ==
    \/ SerSetPaths
    \/ SerIoctlDone
    \/ PathChanged
    \/ RrRecv
    \/ RrIoctlDone
    \/ ApiSetPathsSync
    \/ ApiReply
    \/ ApiTimeout

\* excluded paths set through set_paths_sync and the asynchronous set_paths
NextAsync ==
    \/ SerSetPaths
    \/ SerIoctlDone
    \/ ApiSetPathsSync
    \/ ApiSetPathsAsync
    \/ ApiReply
    \/ ApiTimeout
    \/ TaskNext

\* interface addresses only: set/clear_tunnel_addresses, route callbacks
NextIps ==
    \/ SerRegisterIps
    \/ SerIoctlDone
    \/ ApiSetTunnelAddressesFails
    \/ ApiSetTunnelAddresses
    \/ ApiClearTunnelAddresses
    \/ ApiReply
    \/ ApiTimeout
    \/ CbNext

\* the asynchronous set_paths and the drop of the controller
NextDrop ==
    \/ SerSetPaths
    \/ SerIoctlDone
    \/ ApiSetPathsAsync
    \/ ApiDrop
    \/ ApiReply
    \/ ApiTimeout
    \/ TaskNext

\* the drop of the controller and the end of the serialiser
NextExit ==
    \/ NextDrop
    \/ SerLeave
    \/ SerTeardown

\* the event thread until the controller is dropped
NextEvents ==
    \/ EvNext
    \/ ApiDrop
    \/ SerSetPaths
    \/ SerIoctlDone
    \/ ApiReply
    \/ ApiTimeout

\* the route callbacks while the daemon may go away
NextBlock ==
    \/ NextIps
    \/ DaemonGone

Next ==
    \/ NextSync
    \/ NextAsync
    \/ NextIps

Spec == Init /\ [][Next]_vars

SpecSync == Init /\ [][NextSync]_vars

SpecAsync == Init /\ [][NextAsync]_vars

SpecIps == Init /\ [][NextIps]_vars

SpecDrop == Init /\ [][NextDrop]_vars

SpecBlock == Init /\ [][NextBlock]_vars

SpecEvents == Init /\ [][NextEvents]_vars

\* the configuration buffer of every list of paths
SpecConfig == Init /\ [][NextConfig]_vars

\* the process tree of every snapshot, walked in every order
SpecTree == Init /\ [][NextTree]_vars

\* the event thread is scheduled: it reaches the top of its loop and returns
\* from WaitForMultipleObjects once the quit event is set.  Nothing obliges
\* the driver to complete a DequeEvent ioctl.
SpecEventsFair ==
    /\ SpecEvents
    /\ WF_vars(EvDequeue)
    /\ WF_vars(EvQuit)

\* the end of the serialiser where its thread is scheduled and the driver
\* completes the SetConfiguration and ClearConfiguration ioctls it is given
SpecExitFair ==
    /\ Init /\ [][NextExit]_vars
    /\ WF_vars(SerSetPaths)
    /\ WF_vars(SerIoctlDone)
    /\ WF_vars(SerLeave)
    /\ WF_vars(SerTeardown)

\* a session from the start: DeviceHandle::new on the driver as found, and,
\* once it returned Ok, the serialiser with its fresh cache serving
\* set/clear_tunnel_addresses and route callbacks
NextSession ==
    \/ OpenNext
    \/ (openPc = "done" /\ openResult = "Ok" /\ NextIps)

SpecSession == OpenInit /\ [][NextSession]_vars

\* set/clear_tunnel_addresses and route callbacks with the tunnel already up
SpecTunnelUp == InitTunnelUp /\ [][NextIps]_vars

\* the tunnel addresses of a fresh context, for every metadata argument
NextContext == NewContext

SpecContext == Init /\ [][NextContext]_vars

\* asynchronous set_paths where the threads are scheduled fairly: the
\* serialiser takes queued requests, the blocking tasks and the API thread
\* run on.  Nothing obliges the driver to complete an ioctl.
SpecAsyncFair ==
    /\ SpecAsync
    /\ WF_vars(SerSetPaths)
    /\ WF_vars(TaskNext)
    /\ WF_vars(ApiReply)
    /\ WF_vars(ApiTimeout)

(***************************************************************************)
(* Properties                                                              *)
(***************************************************************************)

\* C1: once DeviceHandle::new has returned, either it returned Ok, the handle
\* is open and the driver is in Ready or a higher state, or it returned an
\* error and the handle is closed; a handle is never left open with the
\* driver in Started or Initialized.
OpenOkMeansReady ==
    openPc = "done" =>
       /\ openResult # "none"
       /\ openResult = "Ok" =>
             (handleOpen /\ drvState \in {Ready, Engaged, Terminating})
       /\ openResult # "Ok" => ~handleOpen
       /\ handleOpen => drvState \notin {Started, Initialized}

\* new() returned Ok after it found the driver in Started and initialized it
OpenedFromStarted ==
    /\ openResult = "Ok"
    /\ \E k \in 1..Len(openLog) : openLog[k].code = "Initialize"
    /\ \E k \in 1..Len(openLog) : openLog[k].code = "RegisterProcesses"

\* addresses without an internet address carry no tunnel address
NoInternetNoTunnel(a) ==
    (a.internet_ipv4 = NoAddr /\ a.internet_ipv6 = NoAddr)
        => (a.tunnel_ipv4 = NoAddr /\ a.tunnel_ipv6 = NoAddr)

\* C2: every RegisterIpAddresses ioctl the serialiser sends, and hence what
\* the driver has registered, carries no tunnel address when both internet
\* addresses are absent.
RegisteredIpsRespectNoInternet ==
    /\ inflight["ser"].code = "RegisterIpAddresses"
          => NoInternetNoTunnel(inflight["ser"].arg)
    /\ NoInternetNoTunnel(drvIps)

\* a request with a tunnel address and no internet address is being sent to
\* the driver
NoInternetIoctlSent ==
    /\ inflight["ser"].code = "RegisterIpAddresses"
    /\ serCur # 0
    /\ sent[serCur].arg.internet_ipv4 = NoAddr
    /\ sent[serCur].arg.internet_ipv6 = NoAddr
    /\ sent[serCur].arg.tunnel_ipv4 # NoAddr

\* requests i and i+1 are RegisterIps with identical addresses and both have
\* been answered
IdenticalPair(i) ==
    /\ sent[i].kind = "RegisterIps"
    /\ sent[i + 1].kind = "RegisterIps"
    /\ sent[i].arg = sent[i + 1].arg
    /\ resp[i] # "pending"
    /\ resp[i + 1] # "pending"

\* the number of RegisterIpAddresses ioctls issued for request i
IpIoctls(i) == IF issued[i].code = "RegisterIpAddresses" THEN 1 ELSE 0

\* C3 (as amended): of two consecutive RegisterIps requests with identical
\* addresses, when the first is answered Ok the second is answered Ok without
\* an ioctl and the pair issues at most one ioctl; when the first one's ioctl
\* fails the second issues the ioctl again.
IdenticalRegisterIpsShortCircuit ==
    \A i \in 1..(Len(sent) - 1) :
       IdenticalPair(i) =>
          /\ resp[i] = "Ok" =>
                /\ issued[i + 1].code = "none"
                /\ resp[i + 1] = "Ok"
                /\ IpIoctls(i) + IpIoctls(i + 1) <= 1
          /\ resp[i] # "Ok" =>
                /\ issued[i].result = "failed"
                /\ issued[i + 1].code = "RegisterIpAddresses"

\* the first of two identical requests was registered with the driver and
\* the second answered Ok from the cache
SecondAnsweredFromCache ==
    \E i \in 1..(Len(sent) - 1) :
       /\ IdenticalPair(i)
       /\ issued[i].code = "RegisterIpAddresses"
       /\ issued[i].result = "ok"
       /\ issued[i + 1].code = "none"
       /\ resp[i + 1] = "Ok"

\* C3 (as stated): two consecutive RegisterIps requests with identical
\* addresses issue exactly one ioctl in total, the second being answered Ok
\* without an ioctl.
IdenticalRegisterIpsExactlyOneIoctl ==
    \A i \in 1..(Len(sent) - 1) :
       IdenticalPair(i) =>
          /\ IpIoctls(i) + IpIoctls(i + 1) = 1
          /\ issued[i + 1].code = "none"
          /\ resp[i + 1] = "Ok"

\* C4: the serialiser takes the requests in the order they were sent, and
\* when a request is taken every request sent before it has been answered:
\* the ioctl of an earlier request is never issued after that of a later one.
RequestsIssuedInSendOrder ==
    /\ \A k \in 1..Len(handled) : handled[k] = k
    /\ \A i, j \in 1..Len(sent) :
          (i < j /\ (issued[j].code # "none" \/ resp[j] # "pending"))
              => resp[i] # "pending"

\* a thread's first request timed out, it sent a second one, and both ioctls
\* were issued
SecondIssuedAfterTimedOutFirst ==
    \E i, j \in 1..Len(sent) :
       /\ i < j
       /\ sent[i].by = sent[j].by
       /\ outcome[i] = "RequestThreadStuck"
       /\ issued[i].code # "none"
       /\ issued[j].code # "none"

\* C5: a SetPaths request with no path is handled with ClearConfiguration,
\* and no SetConfiguration ioctl without entries is sent by the serialiser
\* or by the re-resolver.
NoEmptySetConfiguration ==
    /\ \A t \in {"ser", "rr"} :
          inflight[t].code = "SetConfiguration" => Len(inflight[t].arg) > 0
    /\ \A id \in 1..Len(sent) :
          (sent[id].kind = "SetPaths" /\ sent[id].arg = << >>) =>
             /\ issued[id].code \in {"none", "ClearConfiguration"}
             /\ (serCur = id \/ resp[id] # "pending")
                   => issued[id].code = "ClearConfiguration"

\* the serialiser is clearing the configuration for a SetPaths request
\* without paths
EmptySetPathsClears ==
    /\ serCur # 0
    /\ sent[serCur].kind = "SetPaths"
    /\ sent[serCur].arg = << >>
    /\ inflight["ser"].code = "ClearConfiguration"

\* the device paths of the paths that did not resolve to not-found, in order
RECURSIVE KeptPaths(_, _)
KeptPaths(paths, res) ==
    IF paths = << >> THEN << >>
    ELSE IF Head(res) = "notfound" THEN KeptPaths(Tail(paths), Tail(res))
    ELSE << DevPath(Head(paths)) >> \o KeptPaths(Tail(paths), Tail(res))

\* the paths the thread t hands to set_config
PathsOf(t) == IF t = "ser" THEN sent[serCur].arg ELSE monitored_paths

\* every configuration ioctl in flight was built from paths none of which
\* failed to resolve with an error other than not-found; it carries the kept
\* paths, and is ClearConfiguration exactly when none is kept
ConfigIoctlsKeepResolved ==
    \A t \in {"ser", "rr"} :
       inflight[t].code \in {"SetConfiguration", "ClearConfiguration"} =>
          /\ Len(inflight[t].res) = Len(PathsOf(t))
          /\ \A i \in 1..Len(inflight[t].res) : inflight[t].res[i] # "error"
          /\ inflight[t].arg = KeptPaths(PathsOf(t), inflight[t].res)
          /\ inflight[t].code = IF inflight[t].arg = << >>
                                THEN "ClearConfiguration"
                                ELSE "SetConfiguration"

\* an answered SetPaths request issued no ioctl exactly when a resolution
\* failed with an error other than not-found, and then its reply is the error
ResolutionErrorAborts ==
    \A id \in 1..Len(sent) :
       (sent[id].kind = "SetPaths" /\ resp[id] # "pending") =>
          /\ issued[id].code = "none" <=>
                \E i \in 1..Len(issued[id].failed) : issued[id].failed[i] = "error"
          /\ issued[id].code = "none" => resp[id] = "SetConfiguration"

\* C6 (as amended): set_config drops the paths that resolve to not-found and
\* keeps the others in order; with none kept it issues ClearConfiguration and
\* no SetConfiguration; the reply is Ok when the ioctl succeeds and
\* Error::SetConfiguration when it fails; any other resolution error aborts
\* the request with an error and no ioctl.
SetConfigDropsNotFound ==
    /\ ConfigIoctlsKeepResolved
    /\ ResolutionErrorAborts
    /\ \A id \in 1..Len(sent) :
          (sent[id].kind = "SetPaths" /\ resp[id] # "pending") =>
             /\ issued[id].result = "ok" => resp[id] = "Ok"
             /\ issued[id].result = "failed" => resp[id] = "SetConfiguration"

\* SetPaths([p]) with p not found: ClearConfiguration was issued, succeeded
\* and the reply is Ok
NotFoundPathCleared ==
    \E id \in 1..Len(sent) :
       /\ sent[id].kind = "SetPaths"
       /\ Len(sent[id].arg) = 1
       /\ issued[id].code = "ClearConfiguration"
       /\ issued[id].result = "ok"
       /\ resp[id] = "Ok"

\* C6 (as stated): as above, but SetPaths([p]) with p resolving to not-found
\* is answered Ok.
NotFoundPathAnsweredOk ==
    /\ ConfigIoctlsKeepResolved
    /\ ResolutionErrorAborts
    /\ \A id \in 1..Len(sent) :
          (/\ sent[id].kind = "SetPaths"
           /\ Len(sent[id].arg) = 1
           /\ issued[id].code = "ClearConfiguration"
           /\ resp[id] # "pending") => resp[id] = "Ok"

\* the asynchronous calls that were accepted and have not cleared the flag
ActiveAsync ==
    { i \in 1..Len(asyncCalls) :
         asyncCalls[i].state \in {"spawned", "waiting", "delivered"} }

\* C7: a set_paths call made while an earlier one has not cleared the flag
\* is answered AlreadySettingPaths and sends no request; at most one
\* asynchronous SetPaths request is outstanding.
AsyncSetPathsExclusive ==
    /\ \A i \in 1..Len(asyncCalls) :
          asyncCalls[i].state = "rejected" =>
             (asyncCalls[i].result = "AlreadySettingPaths" /\ asyncCalls[i].req = 0)
    /\ \A i, j \in 1..Len(asyncCalls) :
          (i < j /\ i \in ActiveAsync) => asyncCalls[j].state = "rejected"
    /\ Cardinality(ActiveAsync) <= 1
    /\ Cardinality({ id \in 1..Len(sent) : sent[id].by = "task" })
          = Cardinality({ i \in 1..Len(asyncCalls) : asyncCalls[i].req # 0 })
    /\ Cardinality({ id \in 1..Len(sent) :
                        sent[id].by = "task" /\ outcome[id] = "waiting" }) <= 1
    /\ ActiveAsync # {} => async_path_update_in_progress

\* a second call was rejected while the first one's request is outstanding
OverlappingCallRejected ==
    \E i, j \in 1..Len(asyncCalls) :
       /\ i < j
       /\ asyncCalls[i].state = "waiting"
       /\ asyncCalls[j].state = "rejected"

\* C8: an accepted asynchronous set_paths call eventually delivers its
\* result and clears the in-progress flag, also when the serialiser never
\* answers: the flag is never left set forever.
AsyncFlagEventuallyCleared ==
    async_path_update_in_progress ~> ~async_path_update_in_progress

\* an accepted call's task waits for a reply the serialiser has not sent
AsyncTaskWaiting ==
    \E i \in 1..Len(asyncCalls) :
       /\ asyncCalls[i].state = "waiting"
       /\ resp[asyncCalls[i].req] = "pending"
       /\ serCur = asyncCalls[i].req

\* C9: after a caller's wait timed out the serialiser is healthy: it has
\* not left its loop, the timed-out request is queued, being handled or was
\* answered although nobody received the reply, and the serialiser can take
\* the next queued request and complete the one it is handling; a caller gets
\* RequestThreadStuck or the reply that was sent.
SerialiserSurvivesTimeout ==
    /\ serPc \in {"recv", "ioctl"}
    /\ \A id \in 1..Len(sent) :
          /\ outcome[id] \in {"waiting", "RequestThreadStuck", resp[id]}
          /\ resp[id] = "pending" =>
                (serCur = id \/ \E k \in 1..Len(reqQ) : reqQ[k] = id)
    /\ (serPc = "recv" /\ reqQ # << >>) => ENABLED SerRegisterIps
    /\ serPc = "ioctl" => ENABLED SerIoctlDone

\* a request timed out, was answered all the same, and a later request was
\* answered and its reply received
AnsweredAfterTimeout ==
    \E i, j \in 1..Len(sent) :
       /\ i < j
       /\ outcome[i] = "RequestThreadStuck"
       /\ resp[i] # "pending"
       /\ resp[j] # "pending"
       /\ outcome[j] = resp[j]

\* a step of the blocking task of the asynchronous call i
TaskStep(i) == TaskSend(i) \/ TaskReply(i) \/ TaskClearFlag(i)

\* C10: every thread waiting for a reply that has not been sent can give up
\* waiting (with RequestThreadStuck): the synchronous callers, the route
\* callbacks and the tasks of asynchronous set_paths calls.
EveryWaitIsBounded ==
    /\ (apiPc = "wait" /\ ReplyTimedOut(apiCur)) => ENABLED ApiTimeout
    /\ \A t \in CbThreads :
          (cb[t].pc = "wait" /\ ReplyTimedOut(cb[t].req)) => ENABLED CbTimeout(t)
    /\ \A i \in 1..Len(asyncCalls) :
          (asyncCalls[i].state = "waiting" /\ ReplyTimedOut(asyncCalls[i].req))
              => ENABLED TaskStep(i)

OneIoctlInFlight ==
    Cardinality({ t \in {"ser", "rr"} : inflight[t].code # "none" }) <= 1

\* C13: a thread holding the monitored-paths mutex has no ioctl in flight.
NoIoctlUnderPathsLock ==
    pathsLock # "free" => inflight[pathsLock].code = "none"

\* the serialiser is in the ioctl of a SetPaths request with the mutex held
SerialiserIoctlUnderLock ==
    /\ pathsLock = "ser"
    /\ serPc = "ioctl"
    /\ inflight["ser"].code \in {"SetConfiguration", "ClearConfiguration"}

\* the first address of the family in the list, NoAddr when it has none
FirstOf(ips, family) ==
    IF \E i \in 1..Len(ips) : ips[i].family = family
    THEN ips[CHOOSE i \in 1..Len(ips) :
                /\ ips[i].family = family
                /\ \A j \in 1..(i - 1) : ips[j].family # family].addr
    ELSE NoAddr

\* C14: a context's tunnel_ipv4 is the first IPv4 address of the metadata's
\* list, the sentinel 192.0.2.123 when it has none, and its tunnel_ipv6 the
\* first IPv6 address, absent when it has none.
TunnelAddressesAreFirstAdvertised ==
    \A k \in 1..Len(ctxs) :
       LET ips == ctxs[k].metadata.ips IN
       /\ ctxs[k].addresses.tunnel_ipv4 =
             IF FirstOf(ips, 4) = NoAddr THEN RESERVED_IP_V4 ELSE FirstOf(ips, 4)
       /\ ctxs[k].addresses.tunnel_ipv6 = FirstOf(ips, 6)

\* a context was created from a list with two different IPv4 addresses
TwoIpv4Advertised ==
    \E k \in 1..Len(ctxs) :
       \E i, j \in 1..Len(ctxs[k].metadata.ips) :
          /\ i < j
          /\ ctxs[k].metadata.ips[i].family = 4
          /\ ctxs[k].metadata.ips[j].family = 4
          /\ ctxs[k].metadata.ips[i] # ctxs[k].metadata.ips[j]


\* the requests that carry the addresses of a handler context
ContextRequests == { i \in 1..Len(sent) : sent[i].ctx # 0 }

ClearRequests == { i \in 1..Len(sent) : sent[i].by = "api" /\ sent[i].ctx = 0 }

DropLeavesNoExclusionSet ==
    \A i \in 1..Len(sent) :
       (/\ sent[i].by = "drop"
        /\ outcome[i] = "Ok"
        /\ reqQ = << >>
        /\ serPc = "recv") => drvConfig = << >>

\* the drop returned Ok while the task of an earlier asynchronous set_paths
\* had not sent its request yet
DropReturnedBeforeTaskSent ==
    /\ \E i \in 1..Len(sent) : sent[i].by = "drop" /\ outcome[i] = "Ok"
    /\ \E c \in 1..Len(asyncCalls) :
          asyncCalls[c].state = "spawned" /\ asyncCalls[c].paths # << >>


\* C18: every handler invocation in which the address lookup or RegisterIps
\* failed has sent exactly one Block(SplitTunnelError) if it obtained the
\* daemon's sender and none if the daemon was gone; a successful invocation
\* has sent none; and the daemon has been sent no Block but those.
BlockOncePerFailedCallback ==
    /\ \A i \in 1..Len(cbLog) :
          cbLog[i].blocks = IF cbLog[i].failed /\ cbLog[i].tx THEN 1 ELSE 0
    /\ blocks = Cardinality({ i \in 1..Len(cbLog) : cbLog[i].blocks = 1 })

\* a failed invocation sent Block, and one that failed after the daemon had
\* gone sent none
BlockSentAndSuppressed ==
    \E i, j \in 1..Len(cbLog) :
       /\ cbLog[i].failed /\ cbLog[i].tx /\ cbLog[i].blocks = 1
       /\ cbLog[j].failed /\ ~cbLog[j].tx /\ cbLog[j].blocks = 0
       /\ blocks = 1


\* the SetPaths requests whose driver ioctl succeeded
SetPathsDone ==
    { id \in 1..Len(sent) : sent[id].kind = "SetPaths" /\ issued[id].result = "ok" }

\* the serialiser finishes a SetPaths request whose ioctl succeeded
SetPathsSucceeds ==
    /\ serPc = "ioctl"
    /\ serPc' = "recv"
    /\ sent[serCur].kind = "SetPaths"
    /\ issued'[serCur].result = "ok"

\* C19 (as amended): when the ioctl of a SetPaths(P) request succeeds, either
\* the path monitor accepts P and the monitored-paths list becomes exactly P,
\* or the path monitor fails and the list becomes empty; in both cases the
\* serialiser answers Ok, and the caller receives Ok unless it is still
\* waiting or its wait timed out before the answer.
SetPathsOkUpdatesMonitored ==
    /\ [][SetPathsSucceeds =>
             /\ resp'[serCur] = "Ok"
             /\ \/ pmPaths' = sent[serCur].arg /\ monitored_paths' = sent[serCur].arg
                \/ pmPaths' = pmPaths /\ monitored_paths' = << >>]_vars
    /\ [](\A id \in SetPathsDone :
             /\ resp[id] = "Ok"
             /\ outcome[id] \in {"waiting", "Ok", "RequestThreadStuck"})

\* C19 (as stated): the caller of every SetPaths whose ioctl succeeded
\* receives Ok.
SetPathsOkCallerGetsOk ==
    \A id \in SetPathsDone : outcome[id] # "waiting" => outcome[id] = "Ok"

\* the path monitor accepted a first non-empty list and failed on a second
\* one, which emptied the monitored-paths list; both callers got Ok
MonitorFailureEmptiesList ==
    /\ Len(sent) = 2
    /\ SetPathsDone = {1, 2}
    /\ issued[1].code = "SetConfiguration"
    /\ issued[2].code = "SetConfiguration"
    /\ pmPaths = sent[1].arg
    /\ pmPaths # sent[2].arg
    /\ monitored_paths = << >>
    /\ outcome[1] = "Ok" /\ outcome[2] = "Ok"


\* C20: no buffer a DequeEvent ioctl returns terminates the event thread:
\* the thread stops only after the quit event was set, and after any buffer
\* that did not decode it is back at the top of its loop.
NoBufferTerminatesEventThread ==
    /\ evPc # "panicked"
    /\ evPc = "exited" => quit_event

\* a buffer shorter than the event id was returned and handed to the parser
ShortBufferParsed ==
    /\ evPc = "panicked"
    /\ evBuf.len < EventIdSize


\* C21: once the quit event has been signalled the event thread eventually
\* leaves its loop (closing its overlapped event handle on the way out) and
\* exits.
QuitEventuallyStopsEventThread == quit_event ~> (evPc = "exited")

\* the quit event was set while a DequeEvent ioctl was pending, the ioctl
\* completed first, and the thread did not survive its buffer
QuitSetButThreadPanicked ==
    /\ quit_event
    /\ evPc = "panicked"


\* the recorded parent of `p` is in the snapshot and was created after `p`
ParentIsYounger(p) ==
    /\ snapshot[p].parent_pid \in DOMAIN snapshot
    /\ snapshot[snapshot[p].parent_pid].creation_time > snapshot[p].creation_time

\* C22: in the serialised registry every process of the snapshot has one
\* entry; its parent_pid is 0 if its recorded parent is in the snapshot with
\* a strictly greater creation_time, and its original parent_pid otherwise,
\* in whatever order the map was walked.
RecycledParentsZeroed ==
    registry # << >> =>
       /\ Len(registry) = MaxProcs
       /\ \A p \in Pids : \E i \in 1..Len(registry) : registry[i].pid = p
       /\ \A i \in 1..Len(registry) :
             registry[i].parent_pid =
                IF ParentIsYounger(registry[i].pid) THEN 0
                ELSE snapshot[registry[i].pid].parent_pid

\* a chain walked child first: 2's parent 1 is younger than 2, so 2 lost
\* its parent; 3's parent 2 is exactly as old as 3, so 3 kept it
ChainOfRecycledParents ==
    /\ registry # << >>
    /\ snapshot[3].parent_pid = 2 /\ snapshot[2].parent_pid = 1
    /\ ParentIsYounger(2)
    /\ snapshot[3].creation_time = snapshot[2].creation_time
    /\ walked = << 2, 3, 1 >>
    /\ registry[1].parent_pid = 0
    /\ registry[2].parent_pid = 2


\* the configurations that resolving `paths` can give: the device paths of
\* those found, in order
DerivedConfigs(paths) ==
    { KeptPaths(paths, res) : res \in [1..Len(paths) -> {"ok", "notfound"}] }

\* the last request sent is a SetPaths that returned Ok, and the serialiser
\* and the re-resolver have nothing pending
SetPathsSettled ==
    /\ sent # << >>
    /\ sent[Len(sent)].kind = "SetPaths"
    /\ outcome[Len(sent)] = "Ok"
    /\ reqQ = << >> /\ serPc = "recv"
    /\ notifyQ = 0 /\ rrPc = "recv"

\* C23: once the last SetPaths(P) has returned Ok and every notification has
\* been processed, the driver's configuration is one derived from P (none if
\* P is empty) and the list the re-resolver reads is P or empty, however the
\* requests and the notifications interleaved.
SetPathsAndReResolutionConverge ==
    SetPathsSettled =>
       /\ drvConfig \in DerivedConfigs(sent[Len(sent)].arg)
       /\ monitored_paths \in {sent[Len(sent)].arg, << >>}

\* after two paths one path was set, the serialiser registered it, and the
\* re-resolver, notified later, found it gone and cleared the configuration
ReResolvedAfterLastSetPaths ==
    /\ SetPathsSettled
    /\ Len(sent) = 2
    /\ sent[1].arg = << P1, P2 >>
    /\ sent[2].arg = << P1 >>
    /\ issued[2].code = "SetConfiguration" /\ issued[2].result = "ok"
    /\ drvConfig = << >>


\* the requests sent for context c, and those of them sent by its callbacks
RequestsOf(c) == { i \in 1..Len(sent) : sent[i].ctx = c }
CallbackRequestsOf(c) == { i \in RequestsOf(c) : sent[i].by \in CbThreads }

\* C24: the callbacks of one context are serialised by its mutex.  No two
\* invocations are inside ctx.register_ips() at once; when a callback sends
\* its RegisterIps the call of every earlier request of the context has
\* returned, and the serialiser takes them in that order; and each request
\* carries the addresses of the previous one with at most one internet
\* address replaced, so no earlier callback's update is lost.
CallbacksSerialisedByContext ==
    /\ \A t, u \in CbThreads :
          (t # u /\ cb[t].pc = "wait" /\ cb[u].pc = "wait") => cb[t].ctx # cb[u].ctx
    /\ \A c \in 1..Len(ctxs) : \A j \in CallbackRequestsOf(c) :
          \A i \in RequestsOf(c) :
             i < j =>
                /\ outcome[i] # "waiting"
                /\ j \in { handled[k] : k \in 1..Len(handled) } =>
                      i \in { handled[k] : k \in 1..Len(handled) }
                /\ (\A m \in RequestsOf(c) : ~(i < m /\ m < j)) =>
                      /\ sent[j].arg.tunnel_ipv4 = sent[i].arg.tunnel_ipv4
                      /\ sent[j].arg.tunnel_ipv6 = sent[i].arg.tunnel_ipv6
                      /\ \/ sent[j].arg.internet_ipv4 = sent[i].arg.internet_ipv4
                         \/ sent[j].arg.internet_ipv6 = sent[i].arg.internet_ipv6
    /\ \A c \in 1..Len(ctxs) :
          (RequestsOf(c) # {} /\ ctxs[c].lock = "free") =>
             \E i \in RequestsOf(c) :
                /\ \A m \in RequestsOf(c) : m <= i
                /\ ctxs[c].addresses = sent[i].arg

\* two callbacks of one context, one per family: the second request carries
\* the IPv6 address the first one set and the IPv4 address it cleared itself
SecondCallbackCarriesFirstUpdate ==
    /\ Len(sent) = 2
    /\ CallbackRequestsOf(1) = {1, 2}
    /\ sent[1].arg.internet_ipv6 = InternetV6
    /\ sent[1].arg.internet_ipv4 = InternetV4
    /\ sent[2].arg.internet_ipv6 = InternetV6
    /\ sent[2].arg.internet_ipv4 = NoAddr
    /\ handled = << 1, 2 >>


\* C25: once every sender of the request channel is gone the serialiser
\* eventually exits; it leaves the recv loop only with the queue drained, it
\* has then taken every request that was sent, and it exits only through the
\* teardown of the volume monitor and the path monitor.
SerialiserExitsAfterSendersDropped ==
    /\ SendersDropped ~> (serPc = "exited")
    /\ [](serPc \in {"teardown", "exited"} =>
             /\ SendersDropped
             /\ reqQ = << >>
             /\ \A id \in 1..Len(sent) : \E k \in 1..Len(handled) : handled[k] = id)
    /\ [][serPc' = "exited" => serPc \in {"teardown", "exited"}]_vars

\* the drop's own wait timed out with its request still unanswered: the
\* serialiser finished that request all the same, and then exited
ExitedAfterQueuedRequest ==
    /\ serPc = "exited"
    /\ \E id \in 1..Len(sent) :
          /\ sent[id].by = "drop"
          /\ outcome[id] = "RequestThreadStuck"
          /\ resp[id] = "Ok"


\* the k-th ioctl of new() is `code`
OpenIssued(k, code) == k \in 1..Len(openLog) /\ openLog[k].code = code

\* the k-th ioctl of new() is a state query that found the driver in `state`
OpenQueried(k, state) == OpenIssued(k, "GetState") /\ openLog[k].arg = state

\* C26: new() drives the driver in a fixed order.  Initialize directly
\* follows a query that returned Started and is followed by a query;
\* RegisterProcesses directly follows a query that returned Initialized and
\* never precedes Initialize; ClearConfiguration is the last ioctl and is
\* issued whenever no earlier step failed; a failed step is the last ioctl and
\* new() returns its error.
OpenIssuesIoctlsInOrder ==
    /\ \A k \in 1..Len(openLog) :
          /\ OpenIssued(k, "Initialize") =>
                /\ OpenQueried(k - 1, Started)
                /\ k < Len(openLog) => OpenIssued(k + 1, "GetState")
          /\ OpenIssued(k, "RegisterProcesses") =>
                /\ OpenQueried(k - 1, Initialized)
                /\ \A j \in k..Len(openLog) : ~OpenIssued(j, "Initialize")
          /\ OpenIssued(k, "ClearConfiguration") =>
                /\ k = Len(openLog)
                /\ openPc = "done"
                /\ OpenIssued(k - 1, "GetState") \/ OpenIssued(k - 1, "RegisterProcesses")
    /\ openPc = "done" =>
          /\ openResult \in {"Ok", "ClearConfigError"} <=>
                OpenIssued(Len(openLog), "ClearConfiguration")
          /\ openResult = "GetStateError" => OpenIssued(Len(openLog), "GetState")
          /\ openResult = "InitializationError" => OpenIssued(Len(openLog), "Initialize")
          /\ openResult = "RegisterProcessesError" =>
                \/ OpenIssued(Len(openLog), "RegisterProcesses")
                \/ OpenQueried(Len(openLog), Initialized)
          /\ openResult \in {"ConnectionFailed", "ConnectionDenied", "ConnectionError"} =>
                openLog = << >>

\* C26 as stated: the state is queried again between RegisterProcesses and
\* ClearConfiguration
OpenRequeriesBeforeClear ==
    \A k \in 1..Len(openLog) :
       OpenIssued(k, "ClearConfiguration") => OpenIssued(k - 1, "GetState")

\* a driver found in Started is taken through every step and new() succeeds
OpenRanEveryStep ==
    /\ openPc = "done"
    /\ openResult = "Ok"
    /\ Len(openLog) = 5
    /\ OpenQueried(1, Started)
    /\ OpenIssued(2, "Initialize")
    /\ OpenQueried(3, Initialized)
    /\ OpenIssued(4, "RegisterProcesses")
    /\ OpenIssued(5, "ClearConfiguration")


\* the serialiser's RegisterIpAddresses ioctl completes in this step
RegisterIpsCompletes ==
    /\ serPc = "ioctl"
    /\ serPc' = "recv"
    /\ sent[serCur].kind = "RegisterIps"

\* C27: the serialiser caches a RegisterIps snapshot only when its ioctl
\* succeeded.  The cache changes in no other step; a failed ioctl leaves it
\* unchanged and is answered RegisterIps; and the retry of a failed request
\* with the same addresses issues the ioctl again.
FailedRegisterIpsIsNotCached ==
    /\ [][previous_addresses' # previous_addresses =>
             /\ RegisterIpsCompletes
             /\ issued'[serCur].result = "ok"]_vars
    /\ [][RegisterIpsCompletes =>
             IF issued'[serCur].result = "ok"
             THEN /\ previous_addresses' = Adjust(sent[serCur].arg)
                  /\ resp'[serCur] = "Ok"
             ELSE /\ previous_addresses' = previous_addresses
                  /\ resp'[serCur] = "RegisterIps"]_vars
    /\ [](\A i \in 1..(Len(sent) - 1) :
            (IdenticalPair(i) /\ issued[i].result = "failed") =>
               /\ resp[i] = "RegisterIps"
               /\ issued[i + 1].code = "RegisterIpAddresses")

\* a RegisterIps failed in the driver and its retry with the same addresses
\* was sent to the driver again, and succeeded
FailedRegisterIpsRetried ==
    \E i \in 1..(Len(sent) - 1) :
       /\ IdenticalPair(i)
       /\ issued[i].result = "failed"
       /\ resp[i] = "RegisterIps"
       /\ issued[i + 1].code = "RegisterIpAddresses"
       /\ issued[i + 1].result = "ok"
       /\ previous_addresses = Adjust(sent[i].arg)


\* the re-resolver takes a notification in this step
RrTakesNotification == notifyQ' = notifyQ - 1

\* C28: on a notification the re-resolver locks the monitored paths; with an
\* empty list it issues no ioctl; with a non-empty list it calls set_config,
\* which issues SetConfiguration with the entries whose volume is mounted, in
\* order, or ClearConfiguration when none is, or nothing when a resolution
\* fails; whatever the ioctl returns the thread goes back to its recv and
\* takes the next notification.
ReResolverFollowsMonitoredPaths ==
    /\ [](rrPc = "ioctl" =>
             /\ pathsLock = "rr"
             /\ monitored_paths # << >>
             /\ Len(inflight["rr"].res) = Len(monitored_paths)
             /\ \A i \in 1..Len(monitored_paths) : inflight["rr"].res[i] # "error"
             /\ inflight["rr"].arg = KeptPaths(monitored_paths, inflight["rr"].res)
             /\ inflight["rr"].code = IF inflight["rr"].arg = << >>
                                      THEN "ClearConfiguration"
                                      ELSE "SetConfiguration")
    /\ [](rrPc \in {"recv", "ioctl"})
    /\ []((rrPc = "recv" /\ notifyQ > 0 /\ pathsLock = "free") => ENABLED RrRecv)
    /\ [][(RrTakesNotification /\ monitored_paths = << >>) =>
             (inflight' = inflight /\ rrPc' = "recv" /\ pathsLock' = pathsLock)]_vars
    /\ [][rrPc = "ioctl" =>
             \/ rrPc' = "ioctl" /\ inflight'["rr"] = inflight["rr"]
             \/ rrPc' = "recv" /\ inflight'["rr"] = NoIoctl /\ pathsLock' = "free"]_vars

\* C28 as stated: the ioctl the re-resolver issues for a non-empty list is a
\* SetConfiguration that carries every entry of the list
ReResolverSetsExactlyTheList ==
    rrPc = "ioctl" =>
       /\ inflight["rr"].code = "SetConfiguration"
       /\ Len(inflight["rr"].arg) = Len(monitored_paths)

\* two paths are monitored and the volume of one is not mounted: the
\* re-resolver's SetConfiguration carries only the other
ReResolverSetsMountedPathsOnly ==
    /\ rrPc = "ioctl"
    /\ Len(monitored_paths) = 2
    /\ inflight["rr"].code = "SetConfiguration"
    /\ Len(inflight["rr"].arg) = 1


\* the internet address of the family of invocation t, in `addresses`
FamilyAddress(addresses, t) ==
    IF cb[t].family = 4 THEN addresses.internet_ipv4 ELSE addresses.internet_ipv6

\* invocation t goes on to ctx.register_ips() in this step
CbEnqueues(t) == cb[t].pc = "lock" /\ cb'[t].pc = "wait"

\* invocation t finds no local address of its family: it clears the
\* context's address of that family and enqueues the request, sending no Block
CbClearsAndEnqueues(t) ==
    /\ CbHandle(t)
    /\ CbEnqueues(t)
    /\ FamilyAddress(ctxs'[cb[t].ctx].addresses, t) = NoAddr
    /\ blocks' = blocks

\* C29: a Changed or UpdatedDetails callback whose interface has no local
\* address of the family is not a failure.  Such an invocation can always go
\* on; an invocation that goes on has sent no Block and has enqueued a
\* RegisterIps with the context's updated addresses, in which only the
\* address of its family was replaced; and it sends Block as it returns
\* exactly when that request failed and the daemon's sender was obtained.
NoLocalAddressIsNotAFailure ==
    /\ [](\A t \in CbThreads :
            (/\ cb[t].pc = "lock"
             /\ cb[t].event = "Changed"
             /\ ctxs[cb[t].ctx].lock = "free") => ENABLED CbClearsAndEnqueues(t))
    /\ [][\A t \in CbThreads :
            CbEnqueues(t) =>
               LET c == cb[t].ctx
                   old == ctxs[c].addresses
                   new == ctxs'[c].addresses IN
               /\ blocks' = blocks
               /\ cbLog' = cbLog
               /\ Len(sent') = Len(sent) + 1
               /\ sent'[Len(sent')] = ContextRequest(c, new, t)
               /\ cb'[t].req = Len(sent')
               /\ new = WithInternet(old, cb[t].family, FamilyAddress(new, t))
               /\ FamilyAddress(new, t) \in {NoAddr, InternetAddr(cb[t].family)}
               /\ cb[t].event = "Removed" => FamilyAddress(new, t) = NoAddr]_vars
    /\ [][\A t \in CbThreads :
            (cb[t].pc = "wait" /\ cb'[t].pc = "idle") =>
               blocks' = IF outcome'[cb[t].req] # "Ok" /\ cb[t].tx
                         THEN blocks + 1 ELSE blocks]_vars

\* a Changed callback for IPv4 found no local address: its request carries
\* no IPv4 internet address, was answered Ok, and no Block has been sent
ChangedWithoutAddressRegistered ==
    \E t \in CbThreads :
       /\ cb[t].pc = "wait"
       /\ cb[t].event = "Changed"
       /\ cb[t].family = 4
       /\ sent[cb[t].req].arg.internet_ipv4 = NoAddr
       /\ ctxs[cb[t].ctx].addresses = sent[cb[t].req].arg
       /\ resp[cb[t].req] = "Ok"
       /\ issued[cb[t].req].code = "RegisterIpAddresses"
       /\ blocks = 0


\* the byte lengths of the first k paths, added up
RECURSIVE BytesBefore(_)
BytesBefore(k) == IF k = 0 THEN 0 ELSE BytesBefore(k - 1) + ByteLen(config_apps[k])

\* where the string region starts in the buffer
StringRegion == ConfigurationHeaderSize + ConfigurationEntrySize * Len(config_apps)

\* C30: for every list of n paths the buffer's header has num_entries = n and
\* total_length = header + n entries + the paths' bytes = the buffer's
\* length; entry i has name_offset = the bytes of the paths before it and
\* name_length = the bytes of path i; and the strings lie at those offsets,
\* in input order, contiguous and inside the buffer.
ConfigBufferLayout ==
    config_buffer.pc = "done" =>
       /\ config_buffer.header.num_entries = Len(config_apps)
       /\ config_buffer.header.total_length = StringRegion + BytesBefore(Len(config_apps))
       /\ config_buffer.header.total_length = config_buffer.size
       /\ Len(config_buffer.entries) = Len(config_apps)
       /\ \A i \in 1..Len(config_apps) :
             /\ config_buffer.entries[i].at = ConfigurationEntrySize * (i - 1)
             /\ config_buffer.entries[i].name_offset = BytesBefore(i - 1)
             /\ config_buffer.entries[i].name_length = ByteLen(config_apps[i])
             /\ config_buffer.strings[i].at = config_buffer.entries[i].name_offset
             /\ config_buffer.strings[i].bytes = ByteLen(config_apps[i])
             /\ StringRegion + config_buffer.strings[i].at + config_buffer.strings[i].bytes
                   <= config_buffer.size

\* a path of 32768 UTF-16 units: its 65536 bytes are in the buffer and its
\* entry says the name is empty
LongPathEntryTruncated ==
    /\ config_buffer.pc = "done"
    /\ \E i \in 1..Len(config_apps) :
          /\ config_apps[i] = 32768
          /\ config_buffer.strings[i].bytes = 65536
          /\ config_buffer.entries[i].name_length = 0


\* a set_paths call is answered AlreadySettingPaths in this step
AsyncCallRejected ==
    /\ Len(asyncCalls') = Len(asyncCalls) + 1
    /\ asyncCalls'[Len(asyncCalls')].state = "rejected"

\* C31: a set_paths call made after the result of the previous asynchronous
\* call was delivered on its reply sender is not rejected: a call is answered
\* AlreadySettingPaths only while an earlier call has not delivered its result.
NoRejectionAfterResult ==
    [][AsyncCallRejected =>
         \E i \in 1..Len(asyncCalls) :
            asyncCalls[i].state \in {"spawned", "waiting"}]_vars

\* the result of a call is with the caller, its task has not stored false
\* yet, and the caller is free to call set_paths again
ResultDeliveredFlagStillSet ==
    /\ apiPc = "idle"
    /\ Len(asyncCalls) < MaxAsync
    /\ async_path_update_in_progress
    /\ \E i \in 1..Len(asyncCalls) : asyncCalls[i].state = "delivered"
    /\ \A i \in 1..Len(asyncCalls) : asyncCalls[i].state \notin {"spawned", "waiting"}


\* the request the serialiser answered last, 0 when it is handling one or
\* has handled none
LastAnswered ==
    IF serPc = "recv" /\ handled # << >> THEN handled[Len(handled)] ELSE 0

\* C32: whenever a RegisterIps request is answered Ok the driver holds the
\* requested addresses after the no-internet adjustment, whether the request
\* was sent to the driver or answered from the cache, and whatever addresses
\* the driver held when new() opened it.
OkMeansDriverHoldsAddresses ==
    (/\ LastAnswered # 0
     /\ sent[LastAnswered].kind = "RegisterIps"
     /\ resp[LastAnswered] = "Ok") => drvIps = Adjust(sent[LastAnswered].arg)

\* new() opened a driver that held an earlier session's addresses; the first
\* RegisterIps, with no addresses, was answered Ok from the fresh cache and
\* the driver still holds the earlier addresses
StaleAddressesAnsweredOk ==
    /\ Len(openLog) > 0
    /\ handled = << 1 >>
    /\ LastAnswered = 1
    /\ sent[1].arg = DefaultAddresses
    /\ issued[1].code = "none"
    /\ resp[1] = "Ok"
    /\ drvIps = PriorAddresses


\* C33: build_process_tree returns without panicking for every snapshot,
\* also one in which a process names itself as its parent.
BuildProcessTreeNeverPanics == ~tree_panicked

\* the recycling pass reached a process that names itself as its parent
SelfParentBorrowedTwice ==
    /\ tree_panicked
    /\ registry = << >>
    /\ \E p \in Pids : snapshot[p].parent_pid = p


\* the tunnel addresses context c was created with
TunnelOf(c) == NewContextAddresses(ctxs[c].metadata)

\* `addresses` carry the tunnel addresses of context c
CarriesTunnelOf(addresses, c) ==
    /\ addresses.tunnel_ipv4 = TunnelOf(c).tunnel_ipv4
    /\ addresses.tunnel_ipv6 = TunnelOf(c).tunnel_ipv6

\* C34: the no-internet adjustment touches only the serialiser's copy.  The
\* context keeps the tunnel addresses it was created with, every request
\* sent for it carries them, and every RegisterIpAddresses ioctl issued for
\* such a request carries them as soon as an internet address is present.
TunnelAddressesSurviveRouteLoss ==
    /\ \A c \in 1..Len(ctxs) : CarriesTunnelOf(ctxs[c].addresses, c)
    /\ \A i \in ContextRequests : CarriesTunnelOf(sent[i].arg, sent[i].ctx)
    /\ (inflight["ser"].code = "RegisterIpAddresses" /\ sent[serCur].ctx # 0) =>
          /\ inflight["ser"].arg = Adjust(sent[serCur].arg)
          /\ (inflight["ser"].arg.internet_ipv4 # NoAddr
                 \/ inflight["ser"].arg.internet_ipv6 # NoAddr) =>
                CarriesTunnelOf(inflight["ser"].arg, sent[serCur].ctx)

\* the default route was removed and the driver was given no address at all;
\* it came back, and the RegisterIpAddresses now in flight carries the tunnel
\* addresses of the context again
TunnelAddressesRestored ==
    /\ Len(sent) = 2
    /\ sent[1].by \in CbThreads /\ sent[2].by \in CbThreads
    /\ sent[1].arg.internet_ipv4 = NoAddr /\ sent[1].arg.internet_ipv6 = NoAddr
    /\ issued[1].code = "RegisterIpAddresses" /\ issued[1].result = "ok"
    /\ sent[2].arg.internet_ipv4 = InternetV4
    /\ inflight["ser"].code = "RegisterIpAddresses"
    /\ serCur = 2
    /\ inflight["ser"].arg.tunnel_ipv4 = "10.64.0.2"
    /\ inflight["ser"].arg.tunnel_ipv6 = "fc00:bbbb::2"
    /\ drvIps = DefaultAddresses


\* set_tunnel_addresses is between locking its fresh context and returning
InSetTunnelAddresses == apiPc \in {"wait", "drop"} /\ apiOp = "set_tunnel_addresses"

\* C35: set_tunnel_addresses holds the mutex of its fresh context until it
\* returns.  While it is inside, no callback of that context is past the
\* lock; and every RegisterIps a callback enqueues for a context comes after
\* the first RegisterIps that set_tunnel_addresses sent for it, whose call has
\* returned by then.
FirstRegisterIpsPrecedesCallbacks ==
    /\ InSetTunnelAddresses =>
          /\ ctxs[Len(ctxs)].lock = "api"
          /\ sent[apiCur].ctx = Len(ctxs)
          /\ \A t \in CbThreads : cb[t].pc = "wait" => cb[t].ctx # Len(ctxs)
          /\ \A i \in ContextRequests : sent[i].ctx = Len(ctxs) => i = apiCur
    /\ \A i \in ContextRequests :
          sent[i].by \in CbThreads =>
             \E j \in 1..(i - 1) :
                /\ sent[j].ctx = sent[i].ctx
                /\ sent[j].by = "api"
                /\ outcome[j] # "waiting"
                /\ \A k \in 1..(j - 1) : sent[k].ctx # sent[i].ctx

\* a route change was delivered to the new context's callback while
\* set_tunnel_addresses waits for its first RegisterIps: the invocation is
\* held at the context's mutex
CallbackHeldAtNewContext ==
    /\ InSetTunnelAddresses
    /\ apiPc = "wait"
    /\ resp[apiCur] = "pending"
    /\ \E t \in CbThreads : cb[t].pc = "lock" /\ cb[t].ctx = Len(ctxs)


\* the serialiser's SetPaths ioctl fails in this step
SetPathsIoctlFails ==
    /\ serPc = "ioctl"
    /\ sent[serCur].kind = "SetPaths"
    /\ serPc' = "recv"
    /\ issued'[serCur].result = "failed"

\* the SetPaths requests the serialiser answered Ok, as positions of `handled`
AcceptedSetPaths ==
    { n \in 1..Len(handled) :
         sent[handled[n]].kind = "SetPaths" /\ resp[handled[n]] = "Ok" }

\* the list of the last SetPaths request answered Ok, << >> if there is none
AcceptedList ==
    IF AcceptedSetPaths = {} THEN << >>
    ELSE sent[handled[CHOOSE n \in AcceptedSetPaths :
                         \A m \in AcceptedSetPaths : m <= n]].arg

\* C36: a SetPaths request whose ioctl fails is answered SetConfiguration and
\* leaves the monitored-paths list and the path monitor's paths as they were;
\* the list the re-resolver reads is always the last accepted one (or empty),
\* so what it re-issues after the failure is derived from that list.
FailedSetPathsKeepsMonitoredPaths ==
    /\ [][SetPathsIoctlFails =>
             /\ resp'[serCur] = "SetConfiguration"
             /\ monitored_paths' = monitored_paths
             /\ pmPaths' = pmPaths]_vars
    /\ [](monitored_paths \in {AcceptedList, << >>})
    /\ [](rrPc = "ioctl" => inflight["rr"].arg \in DerivedConfigs(AcceptedList))

\* SetPaths(P) was accepted, the ioctl of a later SetPaths(Q) failed, and the
\* re-resolver is re-issuing the configuration of P
ReResolverReissuesAfterFailedSetPaths ==
    /\ rrPc = "ioctl"
    /\ inflight["rr"].code = "SetConfiguration"
    /\ monitored_paths # << >>
    /\ handled # << >>
    /\ sent[handled[Len(handled)]].kind = "SetPaths"
    /\ sent[handled[Len(handled)]].arg # monitored_paths
    /\ issued[handled[Len(handled)]].result = "failed"
    /\ resp[handled[Len(handled)]] = "SetConfiguration"
    /\ serPc = "recv"


\* every request placed on the channel so far has been taken, at its
\* position, and answered
AllSentExecuted ==
    /\ Len(handled) = Len(sent)
    /\ \A id \in 1..Len(sent) : resp[id] # "pending" /\ handled[id] = id

\* the serialiser takes a request from the channel in this step
SerTakes == Len(handled') = Len(handled) + 1

\* C37: the serialiser takes the requests one at a time from the head of the
\* channel, so the n-th request it handles is the n-th that was sent, whether
\* or not its caller has timed out; a timed-out request that has not been
\* answered is still queued or being handled; and, where the serialiser is
\* scheduled and the driver completes its ioctls, the requests sent are all
\* answered again and again, so each one is eventually executed.
EveryRequestExecutedOnceInOrder ==
    /\ [](\A k \in 1..Len(handled) : handled[k] = k)
    /\ [][SerTakes => /\ handled' = Append(handled, reqQ[1])
                      /\ reqQ' = Tail(reqQ)]_vars
    /\ [](\A id \in 1..Len(sent) :
            (outcome[id] = "RequestThreadStuck" /\ resp[id] = "pending") =>
               (serCur = id \/ \E k \in 1..Len(reqQ) : reqQ[k] = id))
    /\ []<>AllSentExecuted

\* the caller of the request at the head of the channel has given up with
\* RequestThreadStuck, and the serialiser is about to take that request and
\* issue its ioctl
TimedOutRequestStillExecuted ==
    /\ serPc = "recv"
    /\ reqQ # << >>
    /\ outcome[reqQ[1]] = "RequestThreadStuck"
    /\ issued[reqQ[1]].code = "none"
    /\ ENABLED SerSetPaths


\* set_tunnel_addresses returns an error in this step: before any request
\* was sent, or with the error of its first RegisterIps
SetTunnelAddressesFails ==
    \/ ApiSetTunnelAddressesFails
    \/ /\ apiOp = "set_tunnel_addresses"
       /\ apiPc \in {"wait", "drop"}
       /\ apiPc' = "idle"
       /\ outcome'[apiCur] # "Ok"

\* a route callback enqueues a RegisterIps in this step
CallbackEnqueues ==
    /\ Len(sent') = Len(sent) + 1
    /\ sent'[Len(sent')].by \in CbThreads

\* the contexts whose set_tunnel_addresses returned Ok, and the one of the
\* call that is under way
EstablishedContexts ==
    { sent[j].ctx : j \in { k \in ContextRequests :
                               /\ sent[k].by = "api"
                               /\ (outcome[k] = "Ok" \/ (k = apiCur /\ InSetTunnelAddresses)) } }

\* C38: when set_tunnel_addresses returns an error no callback is registered,
\* neither the previous one nor the new one; a registered callback always
\* belongs to a set_tunnel_addresses that returned Ok or is under way, and a
\* callback enqueues a RegisterIps only while it is registered.
NoCallbackAfterFailedSetTunnelAddresses ==
    /\ [][SetTunnelAddressesFails => osCallbacks' = {}]_vars
    /\ [](osCallbacks \subseteq EstablishedContexts)
    /\ [][CallbackEnqueues => sent'[Len(sent')].ctx \in osCallbacks]_vars
    /\ [](\A t \in CbThreads : cb[t].pc # "idle" => cb[t].ctx \in osCallbacks)

\* a first set_tunnel_addresses returned Ok, a second one returned the error
\* of its RegisterIps, and neither callback is registered
BothCallbacksGoneAfterError ==
    /\ apiPc = "idle"
    /\ osCallbacks = {}
    /\ \E i, j \in ContextRequests :
          /\ i < j
          /\ sent[i].by = "api" /\ outcome[i] = "Ok"
          /\ sent[j].by = "api" /\ outcome[j] \in {"RegisterIps", "RequestThreadStuck"}
          /\ sent[i].ctx # sent[j].ctx


\* the ioctls that install or remove the configuration
ConfigCodes == {"SetConfiguration", "ClearConfiguration"}

\* C39: a configuration ioctl of the re-resolver and one of the serialiser
\* are never in flight together: whichever thread has one in flight holds the
\* monitored-paths mutex, and the other takes it only once it is free.
ConfigIoctlsNeverOverlap ==
    /\ ~(inflight["ser"].code \in ConfigCodes /\ inflight["rr"].code \in ConfigCodes)
    /\ \A t \in {"ser", "rr"} : inflight[t].code \in ConfigCodes => pathsLock = t
    /\ pathsLock = "ser" => ~ENABLED RrRecv
    /\ pathsLock = "rr" => ~ENABLED SerSetPaths

\* the serialiser's SetPaths ioctl is in flight while a notification for a
\* non-empty list is waiting: the re-resolver is held at the mutex
ReResolverHeldAtPathsMutex ==
    /\ pathsLock = "ser"
    /\ inflight["ser"].code \in ConfigCodes
    /\ rrPc = "recv"
    /\ notifyQ > 0
    /\ monitored_paths # << >>


\* C40: a configuration ioctl of the re-resolver in flight is built from the
\* list of the last SetPaths answered Ok, never from an earlier one; and once
\* SetPaths with no path was the last one answered Ok the driver holds no
\* configuration, the re-resolver issues nothing, and the only
\* SetConfiguration that can be in flight is that of a later SetPaths request
\* with a non-empty list.
ReResolverNeverReinstallsSuperseded ==
    /\ inflight["rr"].code \in ConfigCodes =>
          /\ AcceptedList # << >>
          /\ monitored_paths = AcceptedList
          /\ inflight["rr"].arg = KeptPaths(AcceptedList, inflight["rr"].res)
    /\ (AcceptedSetPaths # {} /\ AcceptedList = << >>) =>
          /\ inflight["rr"].code = "none"
          /\ rrPc = "recv"
          /\ drvConfig = << >>
          /\ inflight["ser"].code = "SetConfiguration" =>
                (sent[serCur].kind = "SetPaths" /\ sent[serCur].arg # << >>)

\* SetPaths(P) and then SetPaths(Q) were answered Ok, Q differs from P, and
\* the re-resolver's SetConfiguration in flight carries the paths of Q
ReResolverInstallsLatestList ==
    /\ inflight["rr"].code = "SetConfiguration"
    /\ \E n \in AcceptedSetPaths :
          /\ sent[handled[n]].arg # << >>
          /\ sent[handled[n]].arg # AcceptedList
          /\ \A k \in 1..Len(inflight["rr"].arg) :
                \A m \in 1..Len(sent[handled[n]].arg) :
                   inflight["rr"].arg[k] # DevPath(sent[handled[n]].arg[m])

=============================================================================
